---- MODULE Spec2Model ----
(***************************************************************************)
(* Expense lifecycle engine of reembolso-despesas: the HTTP handlers of    *)
(* routes/expenses.js and routes/admin.js over the PostgreSQL tables of    *)
(* database/schema.sql, and the receipt-OCR pipeline of services/aws.js.   *)
(*                                                                         *)
(* Every handler is an async function: each awaited query is one atomic    *)
(* step, and other handlers may run between two awaits.  A transaction()   *)
(* is BEGIN .. COMMIT on one connection; its statements become visible at  *)
(* COMMIT or not at all, so a transaction is one step whose statements are *)
(* applied in order and rolled back when one of them raises.               *)
(***************************************************************************)
EXTENDS Integers, Sequences, FiniteSets, Bags, TLC

\* ---------------------------------------------------------------- bounds
MaxExpenses == 1        \* expenses ever created (ids 1..MaxExpenses)
MaxCalls == 4           \* requests on an expense that pass their guards
MaxInflight == 2        \* handlers between their SELECT and their transaction
MaxSweeps == 3          \* retryOCRProcessing invocations
MaxOcrSweeps == 2       \* of them, while receipts are updated and deleted
MaxOcrCalls == 1        \* update and delete requests while OCR runs are followed
MaxQueue == 12          \* jobs in the queue a batch is taken from
MaxBatchSweeps == 1     \* sweeps over such a queue
MaxPipelineCalls == 2   \* lifecycle requests while the pipelines run
MaxStatusCalls == 3     \* lifecycle requests while receipts are extracted
MaxFeedbackCalls == 3   \* direct calls of feedbackLearning

\* ------------------------------------------------------- program constants
DefaultMaxAttempts == 3 \* ocr_queue.max_attempts DEFAULT 3
TrainingMinimum == 50   \* trainMLModel: fewer rows than this, no training
TrainingLimit == 1000   \* trainMLModel: LIMIT 1000
RetryBatchLimit == 10   \* LIMIT 10 of the retry query

\* ---------------------------------------------------------------- domains
Users == {"emp", "apr", "adm"}

Role(u) ==
  CASE u = "emp" -> "employee"
    [] u = "apr" -> "approver"
    [] u = "adm" -> "admin"

ExpenseStatus ==
  {"draft", "pending", "approved", "rejected", "reimbursed", "changes_requested"}

Categories == {"meals", "travel"}

Amounts == {0, 50}     \* in cents; 0 fails isFloat({min: 0.01})

ExpenseIds == 1..MaxExpenses

NULL == "NULL"

\* A JavaScript object: its keys in insertion order, and their values.
EmptyObject == [keys |-> <<>>, val |-> <<>>]

\* What callMLService resolves to when the request failed or timed out (null).
Unreachable ==
  [category |-> NULL, confidence |-> 0, method |-> NULL, scores |-> EmptyObject]

\* The expenseData of a call that has none.
NoData == [title |-> <<>>, description |-> <<>>, vendor |-> <<>>, amount |-> 0]

\* the ocr_queue table declares no UNIQUE constraint on expense_id
OcrQueueUniqueExpenseId == FALSE

VARIABLES
  active,             \* users with is_active = true
  expenses,           \* table expenses: id -> row, for the rows that exist
  created,            \* number of expense ids handed out so far
  expense_audit_log,  \* table expense_audit_log: a bag of rows
  notifications,      \* table notifications: a bag of rows
  expense_comments,   \* table expense_comments: a bag of rows
  ocr_queue,          \* table ocr_queue, ordered by created_at
  reqs,               \* handlers between their SELECT and their transaction: a bag
  nreq,               \* requests that passed their guards so far
  last,               \* the response the latest step sent, if it sent one
  ocr,                \* processReceiptOCR invocations in flight, by who started them
  sweeps,             \* retryOCRProcessing invocations in flight
  nsweep,             \* retryOCRProcessing invocations started so far
  ml,                 \* categorizeMachine, feedbackLearning and trainMLModel invocations in flight
  system_settings     \* table system_settings: key -> value, for the keys written here

vars ==
  <<active, expenses, created, expense_audit_log, notifications,
    expense_comments, ocr_queue, reqs, nreq, last, ocr, sweeps, nsweep, ml,
    system_settings>>

dbvars ==
  <<expenses, expense_audit_log, notifications, expense_comments, ocr_queue>>

\* ------------------------------------------------------------ the database
\* The tables as one value, so that a transaction can be applied or undone.
DB ==
  [expenses |-> expenses,
   expense_audit_log |-> expense_audit_log,
   notifications |-> notifications,
   expense_comments |-> expense_comments,
   ocr_queue |-> ocr_queue,
   error |-> FALSE]

Raise(db) == [db EXCEPT !.error = TRUE]

\* UPDATE expenses SET <fields> WHERE id = id: no row matched is no error.
UpdateExpenses(db, id, fields) ==
  IF db.error \/ id \notin DOMAIN db.expenses THEN db
  ELSE [db EXCEPT !.expenses[id] =
          [f \in DOMAIN @ |-> IF f \in DOMAIN fields THEN fields[f] ELSE @[f]]]

\* metadata is the confidence an 'ocr_processed' row records, NULL in the rows
\* of the other actions, whose metadata is not followed.
AuditRow(id, action, old, new) ==
  [expense_id |-> id, action |-> action, old_status |-> old, new_status |-> new,
   metadata |-> NULL]

\* The row of a completed extraction: metadata { confidence, parsedData }.
OcrProcessedRow(id, confidence) ==
  [AuditRow(id, "ocr_processed", NULL, NULL) EXCEPT !.metadata = confidence]

\* INSERT INTO expense_audit_log: expense_id REFERENCES expenses(id).
InsertAudit(db, id, action, old, new) ==
  IF db.error THEN db
  ELSE IF id \notin DOMAIN db.expenses THEN Raise(db)
  ELSE [db EXCEPT !.expense_audit_log =
          @ (+) SetToBag({AuditRow(id, action, old, new)})]

\* INSERT INTO notifications: related_expense_id REFERENCES expenses(id).
InsertNotification(db, type, id) ==
  IF db.error THEN db
  ELSE IF id \notin DOMAIN db.expenses THEN Raise(db)
  ELSE [db EXCEPT !.notifications =
          @ (+) SetToBag({[type |-> type, related_expense_id |-> id]})]

\* INSERT INTO expense_comments: expense_id REFERENCES expenses(id).
InsertComment(db, id) ==
  IF db.error THEN db
  ELSE IF id \notin DOMAIN db.expenses THEN Raise(db)
  ELSE [db EXCEPT !.expense_comments =
          @ (+) SetToBag({[expense_id |-> id]})]

\* INSERT INTO ocr_queue (expense_id, receipt_url, status): attempts and
\* max_attempts take their defaults.
InsertOcrQueue(db, id, url) ==
  IF db.error THEN db
  ELSE IF id \notin DOMAIN db.expenses THEN Raise(db)
  ELSE [db EXCEPT !.ocr_queue =
          Append(@, [expense_id |-> id, receipt_url |-> url, status |-> "pending",
                     attempts |-> 0, max_attempts |-> DefaultMaxAttempts,
                     error_message |-> NULL, recent |-> TRUE])]

Committed(db) ==
  /\ expenses' = db.expenses
  /\ expense_audit_log' = db.expense_audit_log
  /\ notifications' = db.notifications
  /\ expense_comments' = db.expense_comments
  /\ ocr_queue' = db.ocr_queue

\* A transaction helper that releases the connection without ROLLBACK: the
\* statements before the failing one stay applied.
transactionWithoutRollback(before, stmts, failAt) ==
  LET bad == {k \in 1..Len(stmts) : stmts[k].error \/ k = failAt}
      first == CHOOSE k \in bad : \A h \in bad : k <= h
  IN IF bad = {}
     THEN [db |-> stmts[Len(stmts)], ok |-> TRUE]
     ELSE [db |-> IF first = 1 THEN before ELSE stmts[first - 1], ok |-> FALSE]

\* transaction(callback): the statements of the callback, in order, as the
\* database after each; failAt > 0 is a statement the server fails (0: none).
\* COMMIT when no statement raised, ROLLBACK to the state before otherwise.
transaction(before, stmts, failAt) ==
  LET bad == {k \in 1..Len(stmts) : stmts[k].error \/ k = failAt}
  IN IF bad = {}
     THEN [db |-> stmts[Len(stmts)], ok |-> TRUE]
     ELSE [db |-> before, ok |-> FALSE]

\* --------------------------------------------------------------- responses
Response(op, id, user, seen, code, err) ==
  [op |-> op, id |-> id, seen |-> seen, code |-> code, err |-> err]

\* op, the expense id, the status the handler read (NULL: it read none), the
\* HTTP status code and the kind of error.
NoResponse == Response("none", 0, NULL, NULL, 0, NULL)

\* protect: the token's user must be active, else 401.
Authenticated(u) == u \in active

\* ------------------------------------------------- lifecycle: the handlers
othervars == <<active, created, sweeps, nsweep, system_settings>>

Reply(op, id, user, seen, code, err) ==
  last' = Response(op, id, user, seen, code, err)

\* The location uploadToS3 returns for the receipt that replaces `old`: one the
\* expense did not have before (a uuid in the file name).
Uploaded(old) == old + 1

\* A handler that passed its guards and now awaits its transaction.
Pending(op, id, user, approver, body) ==
  /\ BagCardinality(reqs) < MaxInflight
  /\ nreq' = nreq + 1
  /\ reqs' = reqs (+) SetToBag({[op |-> op, id |-> id, user |-> user,
                                 expense |-> expenses[id], approver |-> approver,
                                 body |-> body,
                                 url |-> IF body.file THEN Uploaded(expenses[id].receipt_url) ELSE 0]})
  /\ last' = NoResponse

NoBody == [category |-> NULL, amount |-> 0, file |-> FALSE, title |-> <<>>, vendor |-> <<>>]

Finish(r) == reqs' = reqs (-) SetToBag({r})

\* The guards of the four routes of routes/admin.js, in the order of the code:
\* restrictTo, the body's text, the SELECT, the status.
AdminGuard(op, user, id, text, roles, needsText, required) ==
  /\ nreq < MaxCalls
  /\ Authenticated(user)
  /\ IF Role(user) \notin roles
     THEN Reply(op, id, user, NULL, 403, "Forbidden") /\ UNCHANGED <<reqs, nreq>>
     ELSE IF needsText /\ text = ""
     THEN Reply(op, id, user, NULL, 400, "ValidationError") /\ UNCHANGED <<reqs, nreq>>
     ELSE IF id \notin DOMAIN expenses
     THEN Reply(op, id, user, NULL, 404, "NotFound") /\ UNCHANGED <<reqs, nreq>>
     ELSE IF expenses[id].status # required
     THEN Reply(op, id, user, expenses[id].status, 400, "InvalidTransition")
          /\ UNCHANGED <<reqs, nreq>>
     ELSE Pending(op, id, user, NULL, NoBody)
  /\ UNCHANGED dbvars
  /\ UNCHANGED <<ocr, ml>>
  /\ UNCHANGED othervars

\* res.status(...) of a handler that completed: 204 for DELETE, 200 otherwise.
SuccessCode(op) == IF op = "delete" THEN 204 ELSE 200

\* The end of a handler's transaction: the response, and the tables.
Outcome(r, tx) ==
  /\ Committed(tx.db)
  /\ Finish(r)
  /\ IF tx.ok
     THEN Reply(r.op, r.id, r.user, r.expense.status, SuccessCode(r.op), NULL)
     ELSE Reply(r.op, r.id, r.user, r.expense.status, 500, "ServerError")
  /\ UNCHANGED nreq
  /\ UNCHANGED othervars

Texts == {"", "text"}

\* POST /expenses/:id/approve
Approve(user, id) ==
  AdminGuard("approve", user, id, "", {"admin", "approver"}, FALSE, "pending")

ApproveStmts(db, r) ==
  LET d1 == UpdateExpenses(db, r.id,
              [status |-> "approved", approver_id |-> r.user, approved_at |-> TRUE])
      d2 == InsertAudit(d1, r.id, "approved", "pending", "approved")
      d3 == InsertNotification(d2, "expense_approved", r.id)
  IN <<d1, d2, d3>>

\* A feedbackLearning(expenseId, userCorrectedCategory) call at its first statement.
FeedbackCall(id, category) ==
  [fn |-> "feedbackLearning", expense_id |-> id, category |-> category,
   data |-> NoData, remote |-> Unreachable, confidence |-> 0, method |-> NULL,
   samples |-> 0, pc |-> "select"]

\* After the transaction, approve starts feedbackLearning when the row it read
\* has a suggestion that differs from its category.
ApproveTx(r, failAt) ==
  /\ BagIn(r, reqs)
  /\ r.op = "approve"
  /\ LET tx == transaction(DB, ApproveStmts(DB, r), failAt)
     IN /\ Outcome(r, tx)
        /\ ml' = IF /\ tx.ok
                    /\ r.expense.ml_suggested_category # NULL
                    /\ r.expense.ml_suggested_category # r.expense.category
                 THEN ml (+) SetToBag({FeedbackCall(r.id, r.expense.category)})
                 ELSE ml
  /\ UNCHANGED ocr

\* POST /expenses/:id/reject
Reject(user, id, reason) ==
  AdminGuard("reject", user, id, reason, {"admin", "approver"}, TRUE, "pending")

RejectStmts(db, r) ==
  LET d1 == UpdateExpenses(db, r.id,
              [status |-> "rejected", approver_id |-> r.user, rejected_at |-> TRUE])
      d2 == InsertAudit(d1, r.id, "rejected", "pending", "rejected")
      d3 == InsertNotification(d2, "expense_rejected", r.id)
  IN <<d1, d2, d3>>

RejectTx(r, failAt) ==
  /\ BagIn(r, reqs)
  /\ r.op = "reject"
  /\ Outcome(r, transaction(DB, RejectStmts(DB, r), failAt))
  /\ UNCHANGED <<ocr, ml>>

\* POST /expenses/:id/request-changes
RequestChanges(user, id, message) ==
  AdminGuard("request-changes", user, id, message, {"admin", "approver"}, TRUE, "pending")

RequestChangesStmts(db, r) ==
  LET d1 == UpdateExpenses(db, r.id,
              [status |-> "changes_requested", approver_id |-> r.user])
      d2 == InsertComment(d1, r.id)
      d3 == InsertAudit(d2, r.id, "changes_requested", "pending", "changes_requested")
      d4 == InsertNotification(d3, "changes_requested", r.id)
  IN <<d1, d2, d3, d4>>

RequestChangesTx(r, failAt) ==
  /\ BagIn(r, reqs)
  /\ r.op = "request-changes"
  /\ Outcome(r, transaction(DB, RequestChangesStmts(DB, r), failAt))
  /\ UNCHANGED <<ocr, ml>>

\* POST /expenses/:id/reimburse (restrictTo('admin'))
Reimburse(user, id) ==
  AdminGuard("reimburse", user, id, "", {"admin"}, FALSE, "approved")

ReimburseStmts(db, r) ==
  LET d1 == UpdateExpenses(db, r.id, [status |-> "reimbursed", reimbursed_at |-> TRUE])
      d2 == InsertAudit(d1, r.id, "reimbursed", "approved", "reimbursed")
      d3 == InsertNotification(d2, "expense_reimbursed", r.id)
  IN <<d1, d2, d3>>

ReimburseTx(r, failAt) ==
  /\ BagIn(r, reqs)
  /\ r.op = "reimburse"
  /\ Outcome(r, transaction(DB, ReimburseStmts(DB, r), failAt))
  /\ UNCHANGED <<ocr, ml>>

\* ------------------------------------------------------------- strings
UpperCase ==
  <<"A", "B", "C", "D", "E", "F", "G", "H", "I", "J", "K", "L", "M",
    "N", "O", "P", "Q", "R", "S", "T", "U", "V", "W", "X", "Y", "Z">>

LowerCase ==
  <<"a", "b", "c", "d", "e", "f", "g", "h", "i", "j", "k", "l", "m",
    "n", "o", "p", "q", "r", "s", "t", "u", "v", "w", "x", "y", "z">>

\* String.prototype.toLowerCase, on a string given as its characters.
toLowerCase(text) ==
  [i \in DOMAIN text |->
     IF \E j \in DOMAIN UpperCase : UpperCase[j] = text[i]
     THEN LowerCase[CHOOSE j \in DOMAIN UpperCase : UpperCase[j] = text[i]]
     ELSE text[i]]

\* String.prototype.includes
includes(text, word) ==
  \E i \in 0..(Len(text) - Len(word)) : SubSeq(text, i + 1, i + Len(word)) = word

\* The element of a set of one element.  An intermediate value is bound as
\* the member of such a set wherever it is used more than once, which makes
\* TLC compute it once.
Only(set) == CHOOSE value \in set : TRUE

\* ------------------------------------- services/aws.js: parseReceiptData
\* Strings are sequences of characters.  What parseFloat returns: NaN or a
\* decimal number, kept as its whole part and its fraction digits without
\* trailing zeros; a field that is null holds NullNumber.
Digit == <<"0", "1", "2", "3", "4", "5", "6", "7", "8", "9">>

DigitSet == {Digit[d] : d \in DOMAIN Digit}

WhiteSpace == {" ", "\n", "\t"}

WordSet ==
  DigitSet \cup {"_"} \cup {UpperCase[j] : j \in DOMAIN UpperCase}
           \cup {LowerCase[j] : j \in DOMAIN LowerCase}

NullNumber == [is |-> "null", whole |-> 0, frac |-> <<>>]

NaN == [is |-> "NaN", whole |-> 0, frac |-> <<>>]

RECURSIVE ToNat(_)
ToNat(digits) ==
  IF digits = <<>> THEN 0
  ELSE 10 * ToNat(SubSeq(digits, 1, Len(digits) - 1))
         + (CHOOSE d \in DOMAIN Digit : Digit[d] = digits[Len(digits)]) - 1

RECURSIVE WithoutTrailingZeros(_)
WithoutTrailingZeros(digits) ==
  IF digits # <<>> /\ digits[Len(digits)] = "0"
  THEN WithoutTrailingZeros(SubSeq(digits, 1, Len(digits) - 1))
  ELSE digits

\* The position after the characters of set that follow one another from i on.
RECURSIVE After(_, _, _)
After(text, i, set) ==
  IF i <= Len(text) /\ text[i] \in set THEN After(text, i + 1, set) ELSE i

\* parseFloat of an unsigned string without exponent: the longest prefix of
\* digits, a point and digits, after leading white space; NaN when that
\* prefix has no digit.
parseFloat(text) ==
  LET start == After(text, 1, WhiteSpace)
      point == After(text, start, DigitSet)
      end == IF point <= Len(text) /\ text[point] = "."
             THEN After(text, point + 1, DigitSet) ELSE point
      whole == SubSeq(text, start, point - 1)
      frac == SubSeq(text, point + 1, end - 1)
  IN IF whole = <<>> /\ frac = <<>> THEN NaN
     ELSE [is |-> "number", whole |-> ToNat(whole), frac |-> WithoutTrailingZeros(frac)]

\* String.prototype.replace(',', '.'): the first comma only.
replaceComma(text) ==
  IF \E i \in DOMAIN text : text[i] = ","
  THEN LET i == CHOOSE j \in DOMAIN text :
                  text[j] = "," /\ \A h \in 1..(j - 1) : text[h] # ","
       IN [text EXCEPT ![i] = "."]
  ELSE text

\* replace(/[^\d.,]/g, '')
keepDigitsAndSeparators(text) == SelectSeq(text, LAMBDA ch : ch \in DigitSet \cup {".", ","})

\* String.prototype.trim
RECURSIVE trim(_)
trim(text) ==
  IF text # <<>> /\ text[1] \in WhiteSpace THEN trim(Tail(text))
  ELSE IF text # <<>> /\ text[Len(text)] \in WhiteSpace
  THEN trim(SubSeq(text, 1, Len(text) - 1))
  ELSE text

\* fullText.split('\n')
RECURSIVE split(_)
split(text) ==
  IF \E i \in DOMAIN text : text[i] = "\n"
  THEN LET i == CHOOSE j \in DOMAIN text :
                  text[j] = "\n" /\ \A h \in 1..(j - 1) : text[h] # "\n"
       IN <<SubSeq(text, 1, i - 1)>> \o split(SubSeq(text, i + 1, Len(text)))
  ELSE <<text>>

\* word at position i of text, whatever the case (flag i)
WordAt(text, i, word) ==
  /\ i + Len(word) - 1 <= Len(text)
  /\ toLowerCase(SubSeq(text, i, i + Len(word) - 1)) = word

\* (\d+[.,]\d{2}) at position i: the position after it, 0 when it is not there.
NumberEnd(text, i) ==
  LET j == After(text, i, DigitSet)
  IN IF /\ j > i /\ j + 2 <= Len(text)
        /\ text[j] \in {".", ","}
        /\ text[j + 1] \in DigitSet /\ text[j + 2] \in DigitSet
     THEN j + 3 ELSE 0

\* [\$]? at position i: the position after it.
AfterDollar(text, i) == IF i <= Len(text) /\ text[i] = "$" THEN i + 1 ELSE i

\* The least member of a set of positions, and the capture from there.
Leftmost(positions) == CHOOSE i \in positions : \A j \in positions : i <= j

\* /word[:\s]*[\$]?(\d+[.,]\d{2})/i: match[1], <<>> when there is no match.
NumberAfterWord(text, word) ==
  LET start(i) == AfterDollar(text, After(text, i + Len(word), WhiteSpace \cup {":"}))
      positions == {i \in DOMAIN text :
                      WordAt(text, i, word) /\ NumberEnd(text, start(i)) # 0}
  IN IF positions = {} THEN <<>>
     ELSE SubSeq(text, start(Leftmost(positions)),
                 NumberEnd(text, start(Leftmost(positions))) - 1)

\* /[\$]?(\d+[.,]\d{2})\s*total/i
NumberBeforeTotal(text) ==
  LET start(i) == AfterDollar(text, i)
      positions == {i \in DOMAIN text :
                      /\ NumberEnd(text, start(i)) # 0
                      /\ WordAt(text, After(text, NumberEnd(text, start(i)), WhiteSpace),
                                <<"t", "o", "t", "a", "l">>)}
  IN IF positions = {} THEN <<>>
     ELSE SubSeq(text, start(Leftmost(positions)),
                 NumberEnd(text, start(Leftmost(positions))) - 1)

\* /[\$]?(\d+[.,]\d{2})$/m
NumberAtEndOfLine(text) ==
  LET start(i) == AfterDollar(text, i)
      positions == {i \in DOMAIN text :
                      /\ NumberEnd(text, start(i)) # 0
                      /\ \/ NumberEnd(text, start(i)) = Len(text) + 1
                         \/ text[NumberEnd(text, start(i))] = "\n"}
  IN IF positions = {} THEN <<>>
     ELSE SubSeq(text, start(Leftmost(positions)),
                 NumberEnd(text, start(Leftmost(positions))) - 1)

\* fullText.match(pattern)[1] for the four amountPatterns, in their order.
amountPatterns(text) ==
  <<NumberAfterWord(text, <<"t", "o", "t", "a", "l">>),
    NumberAfterWord(text, <<"a", "m", "o", "u", "n", "t">>),
    NumberBeforeTotal(text),
    NumberAtEndOfLine(text)>>

\* The digit groups of a date: the lengths (a, b, c) with which
\* \d{a}[\/\-]\d{b}[\/\-]\d{c} matches at position i.
DateGroups(text, i, leading, trailing) ==
  {g \in leading \X (1..2) \X trailing :
     /\ i + g[1] + g[2] + g[3] + 1 <= Len(text)
     /\ \A h \in i..(i + g[1] - 1) : text[h] \in DigitSet
     /\ text[i + g[1]] \in {"/", "-"}
     /\ \A h \in (i + g[1] + 1)..(i + g[1] + g[2]) : text[h] \in DigitSet
     /\ text[i + g[1] + g[2] + 1] \in {"/", "-"}
     /\ \A h \in (i + g[1] + g[2] + 2)..(i + g[1] + g[2] + g[3] + 1) : text[h] \in DigitSet}

\* The groups a greedy match takes: the longest first group, then the longest
\* second, then the longest third.
Greedy(groups) ==
  CHOOSE g \in groups :
    \A h \in groups :
      \/ g[1] > h[1]
      \/ g[1] = h[1] /\ g[2] > h[2]
      \/ g[1] = h[1] /\ g[2] = h[2] /\ g[3] >= h[3]

\* /(\d{1,2}[\/\-]\d{1,2}[\/\-]\d{2,4})/ and /(\d{2,4}[\/\-]\d{1,2}[\/\-]\d{1,2})/
NumericDate(text, leading, trailing) ==
  LET positions == {i \in DOMAIN text : DateGroups(text, i, leading, trailing) # {}}
  IN IF positions = {} THEN <<>>
     ELSE LET i == Leftmost(positions)
              g == Greedy(DateGroups(text, i, leading, trailing))
          IN SubSeq(text, i, i + g[1] + g[2] + g[3] + 1)

\* /(\d{1,2}\s+\w+\s+\d{2,4})/: the position after the match that starts with
\* a digits at i, 0 when there is none.
WordDateEnd(text, i, a) ==
  LET s1 == i + a
      w == After(text, s1, WhiteSpace)
      s2 == After(text, w, WordSet)
      d == After(text, s2, WhiteSpace)
      e == After(text, d, DigitSet)
  IN IF /\ i + a - 1 <= Len(text)
        /\ \A h \in i..(i + a - 1) : text[h] \in DigitSet
        /\ w > s1 /\ s2 > w /\ d > s2 /\ e - d >= 2
     THEN (IF e - d > 4 THEN d + 4 ELSE e) ELSE 0

WordDate(text) ==
  LET end(i) == IF WordDateEnd(text, i, 2) # 0 THEN WordDateEnd(text, i, 2)
                ELSE WordDateEnd(text, i, 1)
      positions == {i \in DOMAIN text : end(i) # 0}
  IN IF positions = {} THEN <<>>
     ELSE SubSeq(text, Leftmost(positions), end(Leftmost(positions)) - 1)

\* fullText.match(pattern)[1] for the three datePatterns, in their order.
datePatterns(text) ==
  <<NumericDate(text, 1..2, 2..4), NumericDate(text, 2..4, 1..2), WordDate(text)>>

\* new Date(dateStr).toISOString().split('T')[0] in a process whose time zone
\* is UTC or west of it, for the date strings of the receipts below; NULL is
\* an invalid Date.
isoDate(dateStr) ==
  CASE dateStr = <<"0", "1", "/", "2", "0", "/", "2", "0", "2", "5">> -> "2025-01-20"
    [] dateStr = <<"2", "0", " ", "J", "a", "n", " ", "2", "0", "2", "5">> -> "2025-01-20"
    [] dateStr = <<"2", "0", "2", "5", "-", "0", "1", "-", "2", "0">> -> "2025-01-20"
    [] dateStr = <<"2", "0", "2", "5", "-", "0", "1", "-", "2", "1">> -> "2025-01-21"
    [] dateStr = <<"0", "1", "/", "2", "2", "/", "2", "0", "2", "5">> -> "2025-01-22"
    [] OTHER -> NULL

\* The first element of a sequence of strings that test accepts and what
\* became of it, or the value none.
RECURSIVE FirstOf(_, _, _, _)
FirstOf(captures, accepted(_), value(_), none) ==
  IF captures = <<>> THEN none
  ELSE IF accepted(Head(captures)) THEN value(Head(captures))
  ELSE FirstOf(Tail(captures), accepted, value, none)

\* The fields of parsedData after the key-value pairs from the i-th on.
RECURSIVE keyValueFields(_, _, _)
keyValueFields(parsedData, keyValuePairs, i) ==
  IF i > Len(keyValuePairs) THEN parsedData
  ELSE LET key == keyValuePairs[i].key
           value == keyValuePairs[i].value
           amount == parseFloat(replaceComma(keepDigitsAndSeparators(value)))
           withTotal ==
             IF /\ includes(key, <<"t", "o", "t", "a", "l">>) \/ includes(key, <<"a", "m", "o", "u", "n", "t">>)
                /\ amount # NaN
             THEN [parsedData EXCEPT !.total = amount]
             ELSE parsedData
           withDate ==
             IF /\ includes(key, <<"d", "a", "t", "e">>) \/ includes(key, <<"t", "i", "m", "e">>)
                /\ isoDate(value) # NULL
             THEN [withTotal EXCEPT !.date = isoDate(value)]
             ELSE withTotal
       IN Only({keyValueFields(next, keyValuePairs, i + 1) : next \in {withDate}})

\* parsedData after the patterns on fullText: the vendor is the first line
\* that is not blank (<<>>: null), the amount and the date are those of the
\* first pattern that matches, the date of the first whose match is a date.
patternFields(fullText) ==
  LET lines == SelectSeq([i \in DOMAIN split(fullText) |-> trim(split(fullText)[i])],
                         LAMBDA line : line # <<>>)
  IN [vendor |-> IF lines # <<>> THEN lines[1] ELSE <<>>,
      amount |-> FirstOf(amountPatterns(fullText),
                         LAMBDA capture : capture # <<>>,
                         LAMBDA capture : parseFloat(replaceComma(capture)),
                         NullNumber),
      date |-> FirstOf(datePatterns(fullText),
                       LAMBDA capture : capture # <<>> /\ isoDate(capture) # NULL,
                       LAMBDA capture : isoDate(capture),
                       NULL),
      items |-> <<>>,
      total |-> NullNumber]

parseReceiptData(ocrResult) ==
  Only({keyValueFields(parsedData, ocrResult.keyValuePairs, 1) :
          parsedData \in {patternFields(ocrResult.fullText)}})

\* extractTextFromImage without AWS credentials (local mode): the simulated
\* result, whatever the receipt.
SimulatedOcr ==
  [fullText |-> <<"S", "A", "M", "P", "L", "E", " ", "R", "E", "C", "E", "I", "P", "T", " ", "T", "E", "X", "T", " ", "-", " ", "O", "C", "R", " ", "P", "R", "O", "C", "E", "S", "S", "I", "N", "G", " ", "S", "I", "M", "U", "L", "A", "T", "E", "D">>,
   keyValuePairs |-> <<[key |-> <<"v", "e", "n", "d", "o", "r">>, value |-> <<"S", "a", "m", "p", "l", "e", " ", "V", "e", "n", "d", "o", "r">>],
                       [key |-> <<"a", "m", "o", "u", "n", "t">>, value |-> <<"2", "5", ".", "0", "0">>],
                       [key |-> <<"d", "a", "t", "e">>, value |-> <<"2", "0", "2", "5", "-", "0", "1", "-", "2", "0">>]>>,
   confidence |-> "0.85"]

extractTextFromImage(s3Key) == SimulatedOcr

SimulatedParsed == parseReceiptData(SimulatedOcr)

\* A payload that is the raw extraction alone, its parsed fields empty.
MergedRawOnly(url, ocrResult, parsedData) ==
  [receipt |-> url, fullText |-> ocrResult.fullText,
   keyValuePairs |-> ocrResult.keyValuePairs,
   confidence |-> ocrResult.confidence,
   parsed |-> [vendor |-> <<>>, amount |-> NullNumber, date |-> NULL,
               items |-> <<>>, total |-> NullNumber]]

\* { ...ocrResult, parsed: parsedData }: the columns ocr_data holds.  receipt
\* is the receipt the result was extracted from, which the payload does not
\* name; it tells the extraction of one receipt from that of another.
Merged(url, ocrResult, parsedData) ==
  [receipt |-> url, fullText |-> ocrResult.fullText,
   keyValuePairs |-> ocrResult.keyValuePairs,
   confidence |-> ocrResult.confidence, parsed |-> parsedData]

\* ocr_data of an expense that has none (null).
NoOcrData ==
  [receipt |-> 0, fullText |-> <<>>, keyValuePairs |-> <<>>, confidence |-> NULL,
   parsed |-> [vendor |-> <<>>, amount |-> NullNumber, date |-> NULL,
               items |-> <<>>, total |-> NullNumber]]

\* The payload of the extraction of the receipt at url.
OcrData(url) == Merged(url, extractTextFromImage(url), SimulatedParsed)

\* ---------------------------------------------- routes/expenses.js handlers
\* The title and the vendor of the requests that are followed, as characters.
Titles == {<<"L", "u", "n", "c", "h">>}

Vendors == {<<>>}

Bodies ==
  [category : Categories, amount : Amounts, file : BOOLEAN,
   title : Titles, vendor : Vendors]

\* validateExpense / checkValidation: amount must be a float >= 0.01.
Valid(body) == body.amount > 0 /\ body.category \in Categories

NewExpense(user, body, url) ==
  [user_id |-> user, category |-> body.category, amount |-> body.amount,
   receipt_url |-> url, status |-> "draft", approver_id |-> NULL,
   approved_at |-> FALSE, rejected_at |-> FALSE, reimbursed_at |-> FALSE,
   ocr_status |-> "pending", ocr_data |-> NoOcrData, ml_suggested_category |-> NULL,
   ml_confidence |-> 0]

\* INSERT INTO expenses ... RETURNING *
InsertExpenses(db, id, row) ==
  IF db.error THEN db ELSE [db EXCEPT !.expenses = @ @@ (id :> row)]

\* A processReceiptOCR(expenseId, receiptUrl) call at its first statement;
\* sweep is the retryOCRProcessing invocation that awaits it (0: none does).
OcrCall(id, url, sweep) ==
  [expense_id |-> id, receipt_url |-> url, sweep |-> sweep, pc |-> "expense_processing"]

\* { title, description, vendor, amount } of POST /: no description is passed
\* on when the request has none.
ExpenseData(body) ==
  [title |-> body.title, description |-> <<>>, vendor |-> body.vendor,
   amount |-> body.amount]

\* A categorizeMachine(expenseId, expenseData) call at its first statement;
\* remote is what callMLService resolved to, and category, confidence and
\* method are the outcome, once it has computed one.
CategorizeCall(id, data) ==
  [fn |-> "categorizeMachine", expense_id |-> id, category |-> NULL,
   data |-> data, remote |-> Unreachable, confidence |-> 0, method |-> NULL,
   samples |-> 0, pc |-> "classify"]

\* POST /: the receipt is uploaded (its location is fresh), then one transaction.
CreateStmts(db, user, id, body, url) ==
  LET d1 == InsertExpenses(db, id, NewExpense(user, body, url))
      d2 == InsertAudit(d1, id, "created", NULL, "draft")
      d3 == IF url # 0 THEN InsertOcrQueue(d2, id, url) ELSE d2
  IN <<d1, d2, d3>>

Create(user, body, failAt) ==
  /\ Authenticated(user)
  /\ created < MaxExpenses
  /\ IF ~Valid(body)
     THEN /\ Reply("create", 0, user, NULL, 400, "ValidationError")
          /\ UNCHANGED <<dbvars, created, ocr, ml>>
     ELSE LET id == created + 1
              url == IF body.file THEN Uploaded(0) ELSE 0
              tx == transaction(DB, CreateStmts(DB, user, id, body, url), failAt)
          IN /\ Committed(tx.db)
             /\ created' = id
             /\ IF tx.ok
                THEN /\ Reply("create", id, user, NULL, 201, NULL)
                     /\ ocr' = IF url # 0
                               THEN ocr (+) SetToBag({OcrCall(id, url, 0)})
                               ELSE ocr
                     /\ ml' = ml (+) SetToBag({CategorizeCall(id, ExpenseData(body))})
                ELSE /\ Reply("create", id, user, NULL, 500, "ServerError")
                     /\ UNCHANGED <<ocr, ml>>
  /\ UNCHANGED <<active, reqs, nreq, sweeps, nsweep, system_settings>>

\* The guards of PUT /:id, POST /:id/submit and DELETE /:id: the SELECT is
\* WHERE id = $1 AND user_id = $2, then the status must be draft.
OwnerGuard(op, user, id) ==
  IF id \notin DOMAIN expenses \/ expenses[id].user_id # user
  THEN Reply(op, id, user, NULL, 404, "NotFound")
  ELSE IF expenses[id].status # "draft"
  THEN Reply(op, id, user, expenses[id].status, 400, "InvalidTransition")
  ELSE FALSE

\* An owner guard that does not look at the status.
OwnerGuardPassesAnyStatus(user, id) ==
  /\ id \in DOMAIN expenses
  /\ expenses[id].user_id = user

\* An owner guard that waits for the extraction to have completed.
OwnerGuardPassesWhenExtracted(user, id) ==
  /\ id \in DOMAIN expenses
  /\ expenses[id].user_id = user
  /\ expenses[id].status = "draft"
  /\ expenses[id].ocr_status = "completed"

OwnerGuardPasses(user, id) ==
  /\ id \in DOMAIN expenses
  /\ expenses[id].user_id = user
  /\ expenses[id].status = "draft"

\* PUT /:id
Update(user, id, body) ==
  /\ nreq < MaxCalls
  /\ Authenticated(user)
  /\ IF ~Valid(body)
     THEN Reply("update", id, user, NULL, 400, "ValidationError") /\ UNCHANGED <<reqs, nreq>>
     ELSE IF OwnerGuardPasses(user, id)
     THEN Pending("update", id, user, NULL, body)
     ELSE OwnerGuard("update", user, id) /\ UNCHANGED <<reqs, nreq>>
  /\ UNCHANGED dbvars
  /\ UNCHANGED <<ocr, ml>>
  /\ UNCHANGED othervars

\* INSERT INTO ocr_queue ... ON CONFLICT (expense_id) DO UPDATE SET receipt_url,
\* status, attempts = 0, created_at = NOW(): the conflict target needs a unique
\* index on expense_id, and the statement raises when there is none.
UpsertOcrQueue(db, id, url) ==
  IF db.error THEN db
  ELSE IF ~OcrQueueUniqueExpenseId THEN Raise(db)
  ELSE IF \E i \in DOMAIN db.ocr_queue : db.ocr_queue[i].expense_id = id
  THEN [db EXCEPT !.ocr_queue =
          [i \in DOMAIN @ |->
             IF @[i].expense_id = id
             THEN [@[i] EXCEPT !.receipt_url = url, !.status = "pending",
                               !.attempts = 0, !.recent = TRUE]
             ELSE @[i]]]
  ELSE InsertOcrQueue(db, id, url)

UpdateStmts(db, r) ==
  LET url == IF r.body.file THEN r.url ELSE r.expense.receipt_url
      d1 == UpdateExpenses(db, r.id,
              [category |-> r.body.category, amount |-> r.body.amount,
               receipt_url |-> url])
      d2 == InsertAudit(d1, r.id, "updated", NULL, NULL)
      d3 == IF r.body.file THEN UpsertOcrQueue(d2, r.id, url) ELSE d2
  IN <<d1, d2, d3>>

UpdateTx(r, failAt) ==
  /\ BagIn(r, reqs)
  /\ r.op = "update"
  /\ LET tx == transaction(DB, UpdateStmts(DB, r), failAt)
     IN /\ Outcome(r, tx)
        /\ ocr' = IF tx.ok /\ r.body.file
                  THEN ocr (+) SetToBag({OcrCall(r.id, r.url, 0)})
                  ELSE ocr
  /\ UNCHANGED ml

\* POST /:id/submit: the approver is any active approver or admin
\* (ORDER BY RANDOM() LIMIT 1).
EligibleWhateverTheRole == active

Eligible == {u \in active : Role(u) \in {"approver", "admin"}}

Submit(user, id) ==
  /\ nreq < MaxCalls
  /\ Authenticated(user)
  /\ IF ~OwnerGuardPasses(user, id)
     THEN OwnerGuard("submit", user, id) /\ UNCHANGED <<reqs, nreq>>
     ELSE IF Eligible = {}
     THEN Reply("submit", id, user, "draft", 500, "NoApprovers") /\ UNCHANGED <<reqs, nreq>>
     ELSE \E approver \in Eligible :
            Pending("submit", id, user, approver, NoBody)
  /\ UNCHANGED dbvars
  /\ UNCHANGED <<ocr, ml>>
  /\ UNCHANGED othervars

SubmitStmts(db, r) ==
  LET d1 == UpdateExpenses(db, r.id, [status |-> "pending", approver_id |-> r.approver])
      d2 == InsertAudit(d1, r.id, "submitted", "draft", "pending")
      d3 == InsertNotification(d2, "approval_request", r.id)
  IN <<d1, d2, d3>>

SubmitTx(r, failAt) ==
  /\ BagIn(r, reqs)
  /\ r.op = "submit"
  /\ Outcome(r, transaction(DB, SubmitStmts(DB, r), failAt))
  /\ UNCHANGED <<ocr, ml>>

\* DELETE /:id
Delete(user, id) ==
  /\ nreq < MaxCalls
  /\ Authenticated(user)
  /\ IF OwnerGuardPasses(user, id)
     THEN Pending("delete", id, user, NULL, NoBody)
     ELSE OwnerGuard("delete", user, id) /\ UNCHANGED <<reqs, nreq>>
  /\ UNCHANGED dbvars
  /\ UNCHANGED <<ocr, ml>>
  /\ UNCHANGED othervars

\* DELETE FROM <table> WHERE <column> = id
DeleteWhere(rows, column, id) ==
  [row \in {x \in DOMAIN rows : x[column] # id} |-> rows[row]]

DeleteStmts(db, r) ==
  LET d1 == [db EXCEPT !.expense_comments = DeleteWhere(@, "expense_id", r.id)]
      d2 == [d1 EXCEPT !.expense_audit_log = DeleteWhere(@, "expense_id", r.id)]
      d3 == [d2 EXCEPT !.ocr_queue = SelectSeq(@, LAMBDA row : row.expense_id # r.id)]
      d4 == [d3 EXCEPT !.notifications = DeleteWhere(@, "related_expense_id", r.id)]
      d5 == [d4 EXCEPT !.expenses = [i \in DOMAIN @ \ {r.id} |-> @[i]]]
  IN <<d1, d2, d3, d4, d5>>

DeleteTx(r, failAt) ==
  /\ BagIn(r, reqs)
  /\ r.op = "delete"
  /\ Outcome(r, transaction(DB, DeleteStmts(DB, r), failAt))
  /\ UNCHANGED <<ocr, ml>>

\* The statement of a transaction that the server fails (0: none).
FailPoints == {0, 1, 2, 3}

Lifecycle ==
  \/ \E user \in Users, body \in Bodies, failAt \in FailPoints : Create(user, body, failAt)
  \/ \E user \in Users, id \in ExpenseIds, body \in Bodies : Update(user, id, body)
  \/ \E user \in Users, id \in ExpenseIds : Submit(user, id)
  \/ \E user \in Users, id \in ExpenseIds : Delete(user, id)
  \/ \E user \in Users, id \in ExpenseIds : Approve(user, id)
  \/ \E user \in Users, id \in ExpenseIds, reason \in Texts : Reject(user, id, reason)
  \/ \E user \in Users, id \in ExpenseIds, message \in Texts : RequestChanges(user, id, message)
  \/ \E user \in Users, id \in ExpenseIds : Reimburse(user, id)
  \/ \E r \in BagToSet(reqs), failAt \in FailPoints : UpdateTx(r, failAt)
  \/ \E r \in BagToSet(reqs), failAt \in FailPoints : SubmitTx(r, failAt)
  \/ \E r \in BagToSet(reqs), failAt \in FailPoints : DeleteTx(r, failAt)
  \/ \E r \in BagToSet(reqs), failAt \in FailPoints : ApproveTx(r, failAt)
  \/ \E r \in BagToSet(reqs), failAt \in FailPoints : RejectTx(r, failAt)
  \/ \E r \in BagToSet(reqs), failAt \in FailPoints : RequestChangesTx(r, failAt)
  \/ \E r \in BagToSet(reqs), failAt \in FailPoints : ReimburseTx(r, failAt)

\* ------------------------------------------- services/aws.js: the OCR runs
\* UPDATE ocr_queue SET <fields> WHERE expense_id = id
UpdateOcrQueue(queue, id, fields) ==
  [i \in DOMAIN queue |->
     IF queue[i].expense_id = id
     THEN [f \in DOMAIN queue[i] |->
             IF f \in DOMAIN fields THEN fields[f] ELSE queue[i][f]]
     ELSE queue[i]]

\* The failure UPDATE without its attempts = attempts + 1.
FailOcrQueueKeepingAttempts(queue, id) ==
  [i \in DOMAIN queue |->
     IF queue[i].expense_id = id
     THEN [queue[i] EXCEPT !.status = "failed", !.error_message = "ExtractionFailed"]
     ELSE queue[i]]

\* UPDATE ocr_queue SET status = 'failed', error_message = $2,
\* attempts = attempts + 1 WHERE expense_id = id
FailOcrQueue(queue, id) ==
  [i \in DOMAIN queue |->
     IF queue[i].expense_id = id
     THEN [queue[i] EXCEPT !.status = "failed", !.attempts = @ + 1,
                           !.error_message = "ExtractionFailed"]
     ELSE queue[i]]

\* UPDATE expenses SET <fields> WHERE id = id, outside a transaction
SetExpense(id, fields) ==
  expenses' = UpdateExpenses(DB, id, fields).expenses

Goto(p, pc) == ocr' = (ocr (-) SetToBag({p})) (+) SetToBag({[p EXCEPT !.pc = pc]})

Exit(p) == ocr' = ocr (-) SetToBag({p})

\* How a processReceiptOCR call ends for its caller: the promise resolves
\* (return { success: true, ... }) or rejects (throw error, or a query of the
\* catch block that raises).
Settled(p, err) == Response("processReceiptOCR", p.expense_id, NULL, NULL, 0, err)

Return(p) == Exit(p) /\ last' = Settled(p, NULL)

Throw(p) == Exit(p) /\ last' = Settled(p, "ExtractionFailed")

ocrframe == <<active, created, reqs, nreq, sweeps, nsweep, ml, system_settings>>

\* The statements of the try block; a query that raises enters the catch block.
OcrExpenseProcessing(p, ok) ==
  /\ BagIn(p, ocr) /\ p.pc = "expense_processing"
  /\ IF ok
     THEN SetExpense(p.expense_id, [ocr_status |-> "processing"]) /\ Goto(p, "queue_processing")
     ELSE UNCHANGED expenses /\ Goto(p, "expense_failed")
  /\ last' = NoResponse
  /\ UNCHANGED <<expense_audit_log, notifications, expense_comments, ocr_queue>>
  /\ UNCHANGED ocrframe

OcrQueueProcessing(p, ok) ==
  /\ BagIn(p, ocr) /\ p.pc = "queue_processing"
  /\ IF ok
     THEN /\ ocr_queue' = UpdateOcrQueue(ocr_queue, p.expense_id, [status |-> "processing"])
          /\ Goto(p, "extract")
     ELSE UNCHANGED ocr_queue /\ Goto(p, "expense_failed")
  /\ last' = NoResponse
  /\ UNCHANGED <<expenses, expense_audit_log, notifications, expense_comments>>
  /\ UNCHANGED ocrframe

\* extractTextFromImage and parseReceiptData: the provider answers or raises.
OcrExtract(p, ok) ==
  /\ BagIn(p, ocr) /\ p.pc = "extract"
  /\ Goto(p, IF ok THEN "expense_completed" ELSE "expense_failed")
  /\ last' = NoResponse
  /\ UNCHANGED dbvars
  /\ UNCHANGED ocrframe

\* ocr_data is the merged payload of the extraction of the receipt the call
\* was started for.
OcrExpenseCompleted(p, ok) ==
  /\ BagIn(p, ocr) /\ p.pc = "expense_completed"
  /\ IF ok
     THEN /\ SetExpense(p.expense_id, [ocr_data |-> OcrData(p.receipt_url),
                                          ocr_status |-> "completed"])
          /\ Goto(p, "queue_completed")
     ELSE UNCHANGED expenses /\ Goto(p, "expense_failed")
  /\ last' = NoResponse
  /\ UNCHANGED <<expense_audit_log, notifications, expense_comments, ocr_queue>>
  /\ UNCHANGED ocrframe

OcrQueueCompleted(p, ok) ==
  /\ BagIn(p, ocr) /\ p.pc = "queue_completed"
  /\ IF ok
     THEN /\ ocr_queue' = UpdateOcrQueue(ocr_queue, p.expense_id, [status |-> "completed"])
          /\ Goto(p, "audit")
     ELSE UNCHANGED ocr_queue /\ Goto(p, "expense_failed")
  /\ last' = NoResponse
  /\ UNCHANGED <<expenses, expense_audit_log, notifications, expense_comments>>
  /\ UNCHANGED ocrframe

\* INSERT INTO expense_audit_log ... SELECT ... FROM expenses WHERE id = $1:
\* no row is inserted when the expense is gone.
OcrAudit(p, ok) ==
  /\ BagIn(p, ocr) /\ p.pc = "audit"
  /\ IF ok
     THEN /\ expense_audit_log' =
               IF p.expense_id \in DOMAIN expenses
               THEN expense_audit_log (+)
                      SetToBag({OcrProcessedRow(p.expense_id,
                                 extractTextFromImage(p.receipt_url).confidence)})
               ELSE expense_audit_log
          /\ Return(p)
     ELSE /\ UNCHANGED expense_audit_log
          /\ Goto(p, "expense_failed")
          /\ last' = NoResponse
  /\ UNCHANGED <<expenses, notifications, expense_comments, ocr_queue>>
  /\ UNCHANGED ocrframe

\* The catch block: a query that raises here ends the call at once.
OcrExpenseFailed(p, ok) ==
  /\ BagIn(p, ocr) /\ p.pc = "expense_failed"
  /\ IF ok
     THEN /\ SetExpense(p.expense_id, [ocr_status |-> "failed"])
          /\ Goto(p, "queue_failed")
          /\ last' = NoResponse
     ELSE UNCHANGED expenses /\ Throw(p)
  /\ UNCHANGED <<expense_audit_log, notifications, expense_comments, ocr_queue>>
  /\ UNCHANGED ocrframe

OcrQueueFailed(p, ok) ==
  /\ BagIn(p, ocr) /\ p.pc = "queue_failed"
  /\ ocr_queue' = IF ok THEN FailOcrQueue(ocr_queue, p.expense_id) ELSE ocr_queue
  /\ Throw(p)
  /\ UNCHANGED <<expenses, expense_audit_log, notifications, expense_comments>>
  /\ UNCHANGED ocrframe

\* ------------------------------------------------- retryOCRProcessing
\* SELECT * FROM ocr_queue WHERE status = 'failed' AND attempts < max_attempts
\* AND created_at > NOW() - INTERVAL '24 hours' ORDER BY created_at ASC LIMIT 10
Retryable(job) ==
  job.status = "failed" /\ job.attempts < job.max_attempts /\ job.recent

\* The retry query without its LIMIT.
FailedJobsUnlimited(queue) ==
  LET rows == SelectSeq(queue, Retryable)
  IN [i \in 1..Len(rows) |-> rows[i].expense_id]

FailedJobs(queue) ==
  LET rows == SelectSeq(queue, Retryable)
  IN [i \in 1..(IF Len(rows) < RetryBatchLimit THEN Len(rows) ELSE RetryBatchLimit) |->
        rows[i].expense_id]

sweepframe == <<active, created, reqs, nreq, ml, system_settings>>

RetrySelect ==
  /\ nsweep < MaxSweeps
  /\ nsweep' = nsweep + 1
  /\ sweeps' = sweeps (+) SetToBag({[sid |-> nsweep + 1, jobs |-> FailedJobs(ocr_queue)]})
  /\ last' = NoResponse
  /\ UNCHANGED <<dbvars, ocr>>
  /\ UNCHANGED sweepframe

\* One turn of the for loop: SELECT receipt_url FROM expenses WHERE id, then
\* await processReceiptOCR; the loop goes on when that call has returned.
RetryNext(sw) ==
  /\ BagIn(sw, sweeps)
  /\ \A p \in BagToSet(ocr) : p.sweep # sw.sid
  /\ IF sw.jobs = <<>>
     THEN sweeps' = sweeps (-) SetToBag({sw}) /\ UNCHANGED ocr
     ELSE /\ sweeps' = (sweeps (-) SetToBag({sw}))
                          (+) SetToBag({[sw EXCEPT !.jobs = Tail(@)]})
          /\ ocr' = IF Head(sw.jobs) \in DOMAIN expenses
                    THEN ocr (+) SetToBag({OcrCall(Head(sw.jobs),
                                                   expenses[Head(sw.jobs)].receipt_url,
                                                   sw.sid)})
                    ELSE ocr
  /\ last' = NoResponse
  /\ UNCHANGED <<dbvars, nsweep>>
  /\ UNCHANGED sweepframe

\* Time passes: the oldest job still inside the 24 hour window leaves it.
Age ==
  /\ \E i \in DOMAIN ocr_queue : ocr_queue[i].recent
  /\ LET i == CHOOSE j \in DOMAIN ocr_queue :
                /\ ocr_queue[j].recent
                /\ \A h \in DOMAIN ocr_queue : ocr_queue[h].recent => j <= h
     IN ocr_queue' = [ocr_queue EXCEPT ![i].recent = FALSE]
  /\ last' = NoResponse
  /\ UNCHANGED <<expenses, expense_audit_log, notifications, expense_comments>>
  /\ UNCHANGED <<active, created, reqs, nreq, ocr, sweeps, nsweep, ml, system_settings>>

Extraction ==
  \/ \E p \in BagToSet(ocr), ok \in BOOLEAN : OcrExpenseProcessing(p, ok)
  \/ \E p \in BagToSet(ocr), ok \in BOOLEAN : OcrQueueProcessing(p, ok)
  \/ \E p \in BagToSet(ocr), ok \in BOOLEAN : OcrExtract(p, ok)
  \/ \E p \in BagToSet(ocr), ok \in BOOLEAN : OcrExpenseCompleted(p, ok)
  \/ \E p \in BagToSet(ocr), ok \in BOOLEAN : OcrQueueCompleted(p, ok)
  \/ \E p \in BagToSet(ocr), ok \in BOOLEAN : OcrAudit(p, ok)
  \/ \E p \in BagToSet(ocr), ok \in BOOLEAN : OcrExpenseFailed(p, ok)
  \/ \E p \in BagToSet(ocr), ok \in BOOLEAN : OcrQueueFailed(p, ok)
  \/ RetrySelect
  \/ \E sw \in BagToSet(sweeps) : RetryNext(sw)
  \/ Age

Status(id) == expenses[id].status

\* ------------------------------------------ services/ml.js: the categorizer
\* Scores are kept as whole numbers of 1/Scale: every keyword ratio (over 10,
\* 11, 12, 14 or 15 keywords), every tenth and every half of their sums is one.
Scale == 9240

Tenth == Scale \div 10

\* finalConfidence > 0.3
AcceptanceThreshold == 3 * Tenth

Has(obj, key) == \E i \in DOMAIN obj.keys : obj.keys[i] = key

\* obj[key]; undefined is read as 0 (both are falsy).
Get(obj, key) == IF Has(obj, key) THEN obj.val[key] ELSE 0

\* obj[key] = value
Put(obj, key, value) ==
  [keys |-> IF Has(obj, key) THEN obj.keys ELSE Append(obj.keys, key),
   val |-> (key :> value) @@ obj.val]

\* Object.keys(categoryRules), in the order of the object literal.
categoryRules ==
  <<"meals", "transportation", "accommodation", "office_supplies", "software", "training", "marketing", "travel">>

\* categoryRules[category]: each keyword as its characters.
keywords(category) ==
  CASE category = "meals" ->
      <<<<"r", "e", "s", "t", "a", "u", "r", "a", "n", "t">>,
         <<"f", "o", "o", "d">>,
         <<"l", "u", "n", "c", "h">>,
         <<"d", "i", "n", "n", "e", "r">>,
         <<"b", "r", "e", "a", "k", "f", "a", "s", "t">>,
         <<"c", "a", "f", "e">>,
         <<"c", "o", "f", "f", "e", "e">>,
         <<"p", "i", "z", "z", "a">>,
         <<"b", "u", "r", "g", "e", "r">>,
         <<"s", "u", "s", "h", "i">>,
         <<"d", "e", "l", "i", "v", "e", "r", "y">>,
         <<"t", "a", "k", "e", "o", "u", "t">>,
         <<"m", "e", "a", "l">>,
         <<"d", "i", "n", "i", "n", "g">>>>
    [] category = "transportation" ->
      <<<<"u", "b", "e", "r">>,
         <<"l", "y", "f", "t">>,
         <<"t", "a", "x", "i">>,
         <<"b", "u", "s">>,
         <<"t", "r", "a", "i", "n">>,
         <<"s", "u", "b", "w", "a", "y">>,
         <<"m", "e", "t", "r", "o">>,
         <<"a", "i", "r", "l", "i", "n", "e">>,
         <<"f", "l", "i", "g", "h", "t">>,
         <<"c", "a", "r", " ", "r", "e", "n", "t", "a", "l">>,
         <<"p", "a", "r", "k", "i", "n", "g">>,
         <<"t", "o", "l", "l">>,
         <<"g", "a", "s">>,
         <<"f", "u", "e", "l">>,
         <<"m", "i", "l", "e", "a", "g", "e">>>>
    [] category = "accommodation" ->
      <<<<"h", "o", "t", "e", "l">>,
         <<"m", "o", "t", "e", "l">>,
         <<"i", "n", "n">>,
         <<"r", "e", "s", "o", "r", "t">>,
         <<"a", "i", "r", "b", "n", "b">>,
         <<"b", "o", "o", "k", "i", "n", "g">>,
         <<"l", "o", "d", "g", "i", "n", "g">>,
         <<"a", "c", "c", "o", "m", "m", "o", "d", "a", "t", "i", "o", "n">>,
         <<"s", "t", "a", "y">>,
         <<"r", "o", "o", "m">>,
         <<"s", "u", "i", "t", "e">>>>
    [] category = "office_supplies" ->
      <<<<"s", "t", "a", "p", "l", "e", "s">>,
         <<"o", "f", "f", "i", "c", "e">>,
         <<"s", "u", "p", "p", "l", "i", "e", "s">>,
         <<"p", "a", "p", "e", "r">>,
         <<"p", "e", "n">>,
         <<"p", "e", "n", "c", "i", "l">>,
         <<"n", "o", "t", "e", "b", "o", "o", "k">>,
         <<"f", "o", "l", "d", "e", "r">>,
         <<"b", "i", "n", "d", "e", "r">>,
         <<"p", "r", "i", "n", "t", "e", "r">>,
         <<"i", "n", "k">>,
         <<"t", "o", "n", "e", "r">>,
         <<"d", "e", "s", "k">>,
         <<"c", "h", "a", "i", "r">>>>
    [] category = "software" ->
      <<<<"s", "o", "f", "t", "w", "a", "r", "e">>,
         <<"a", "p", "p">>,
         <<"s", "u", "b", "s", "c", "r", "i", "p", "t", "i", "o", "n">>,
         <<"l", "i", "c", "e", "n", "s", "e">>,
         <<"s", "a", "a", "s">>,
         <<"c", "l", "o", "u", "d">>,
         <<"m", "i", "c", "r", "o", "s", "o", "f", "t">>,
         <<"a", "d", "o", "b", "e">>,
         <<"g", "o", "o", "g", "l", "e">>,
         <<"z", "o", "o", "m">>,
         <<"s", "l", "a", "c", "k">>,
         <<"g", "i", "t", "h", "u", "b">>,
         <<"a", "w", "s">>,
         <<"d", "i", "g", "i", "t", "a", "l">>>>
    [] category = "training" ->
      <<<<"c", "o", "u", "r", "s", "e">>,
         <<"t", "r", "a", "i", "n", "i", "n", "g">>,
         <<"w", "o", "r", "k", "s", "h", "o", "p">>,
         <<"s", "e", "m", "i", "n", "a", "r">>,
         <<"c", "o", "n", "f", "e", "r", "e", "n", "c", "e">>,
         <<"e", "d", "u", "c", "a", "t", "i", "o", "n">>,
         <<"l", "e", "a", "r", "n", "i", "n", "g">>,
         <<"c", "e", "r", "t", "i", "f", "i", "c", "a", "t", "i", "o", "n">>,
         <<"u", "d", "e", "m", "y">>,
         <<"c", "o", "u", "r", "s", "e", "r", "a">>,
         <<"b", "o", "o", "k">>,
         <<"t", "u", "t", "o", "r", "i", "a", "l">>>>
    [] category = "marketing" ->
      <<<<"a", "d", "v", "e", "r", "t", "i", "s", "i", "n", "g">>,
         <<"m", "a", "r", "k", "e", "t", "i", "n", "g">>,
         <<"p", "r", "o", "m", "o", "t", "i", "o", "n">>,
         <<"s", "o", "c", "i", "a", "l", " ", "m", "e", "d", "i", "a">>,
         <<"f", "a", "c", "e", "b", "o", "o", "k">>,
         <<"g", "o", "o", "g", "l", "e", " ", "a", "d", "s">>,
         <<"l", "i", "n", "k", "e", "d", "i", "n">>,
         <<"c", "a", "m", "p", "a", "i", "g", "n">>,
         <<"b", "r", "a", "n", "d", "i", "n", "g">>,
         <<"d", "e", "s", "i", "g", "n">>>>
    [] category = "travel" ->
      <<<<"t", "r", "a", "v", "e", "l">>,
         <<"t", "r", "i", "p">>,
         <<"b", "u", "s", "i", "n", "e", "s", "s", " ", "t", "r", "i", "p">>,
         <<"v", "i", "s", "a">>,
         <<"p", "a", "s", "s", "p", "o", "r", "t">>,
         <<"i", "n", "s", "u", "r", "a", "n", "c", "e">>,
         <<"l", "u", "g", "g", "a", "g", "e">>,
         <<"b", "a", "g", "g", "a", "g", "e">>,
         <<"a", "i", "r", "p", "o", "r", "t">>,
         <<"t", "e", "r", "m", "i", "n", "a", "l">>>>

\* Object.keys(scores).reduce((a, b) => scores[a] > scores[b] ? a : b): of
\* the keys with the greatest score, the one that comes last.
RECURSIVE reduceFrom(_, _, _)
reduceFrom(scores, a, i) ==
  IF i > Len(scores.keys) THEN a
  ELSE Only({reduceFrom(scores, next, i + 1) :
               next \in {IF scores.val[a] > scores.val[scores.keys[i]]
                         THEN a ELSE scores.keys[i]}})

\* A reduce that keeps the earlier key when two scores are equal.
reduceKeepingFirst(scores) ==
  LET best == CHOOSE i \in DOMAIN scores.keys :
                \A j \in DOMAIN scores.keys :
                  /\ scores.val[scores.keys[i]] >= scores.val[scores.keys[j]]
                  /\ scores.val[scores.keys[i]] = scores.val[scores.keys[j]] => i <= j
  IN scores.keys[best]

reduce(scores) == reduceFrom(scores, scores.keys[1], 2)

\* `${title} ${description} ${vendor}`.toLowerCase(), an absent field being "".
TextOf(expenseData) ==
  toLowerCase(expenseData.title \o <<" ">> \o expenseData.description
              \o <<" ">> \o expenseData.vendor)

\* score / keywords.length, score being the number of keywords in the text.
RECURSIVE ruleScores(_, _, _)
ruleScores(scores, text, i) ==
  IF i > Len(categoryRules) THEN scores
  ELSE LET category == categoryRules[i]
           score == Cardinality({k \in DOMAIN keywords(category) :
                                   includes(text, keywords(category)[k])})
       IN Only({ruleScores(next, text, i + 1) :
                  next \in {Put(scores, category,
                                (Scale * score) \div Len(keywords(category)))}})

\* The outcome of categorizeByRules for the scores it computed.
RuleResult(scores, bestCategory) ==
  [category |-> IF scores.val[bestCategory] > 0 THEN bestCategory ELSE "other",
   confidence |-> scores.val[bestCategory],
   method |-> "rule-based",
   scores |-> scores]

categorizeByRules(expenseData) ==
  Only({RuleResult(scores, reduce(scores)) :
          scores \in {Only({ruleScores(EmptyObject, text, 1) :
                              text \in {TextOf(expenseData)}})}})

\* The amount is in cents.
categorizeByAmount(amount) ==
  IF amount < 2000
  THEN [keys |-> <<"meals", "office_supplies">>,
        val |-> [meals |-> 3 * Tenth, office_supplies |-> 2 * Tenth]]
  ELSE IF amount < 10000
  THEN [keys |-> <<"meals", "transportation", "office_supplies">>,
        val |-> [meals |-> 4 * Tenth, transportation |-> 3 * Tenth,
                 office_supplies |-> Tenth]]
  ELSE IF amount < 50000
  THEN [keys |-> <<"accommodation", "software", "training">>,
        val |-> [accommodation |-> 3 * Tenth, software |-> 2 * Tenth,
                 training |-> 2 * Tenth]]
  ELSE [keys |-> <<"travel", "accommodation", "training">>,
        val |-> [travel |-> 4 * Tenth, accommodation |-> 3 * Tenth,
                 training |-> 2 * Tenth]]

\* A blend that takes a hint without a score as it is.
RECURSIVE blendUnscaled(_, _, _)
blendUnscaled(combinedScores, amountHints, i) ==
  IF i > Len(amountHints.keys) THEN combinedScores
  ELSE LET category == amountHints.keys[i]
           hint == amountHints.val[category]
       IN Only({blendUnscaled(next, amountHints, i + 1) :
                  next \in {Put(combinedScores, category,
                                IF Get(combinedScores, category) # 0
                                THEN (Get(combinedScores, category) + hint) \div 2
                                ELSE hint)}})

\* combinedScores after the hints of amountHints.keys[i..] were blended in.
RECURSIVE blend(_, _, _)
blend(combinedScores, amountHints, i) ==
  IF i > Len(amountHints.keys) THEN combinedScores
  ELSE LET category == amountHints.keys[i]
           hint == amountHints.val[category]
       IN Only({blend(next, amountHints, i + 1) :
                  next \in {Put(combinedScores, category,
                                IF Get(combinedScores, category) # 0
                                THEN (Get(combinedScores, category) + hint) \div 2
                                ELSE hint \div 2)}})

\* An mlResult without the fall-back to the rules.
mlResultWithoutFallback(expenseData, remote) == remote

\* let mlResult = await callMLService(...); if (!mlResult) mlResult = categorizeByRules(...)
mlResultOf(expenseData, remote) ==
  IF remote = Unreachable THEN categorizeByRules(expenseData) ELSE remote

\* finalConfidence = combinedScores[bestCategory] || mlResult.confidence
finalConfidenceOf(mlResult, combinedScores, bestCategory) ==
  IF combinedScores.val[bestCategory] # 0
  THEN combinedScores.val[bestCategory]
  ELSE mlResult.confidence

\* A final category that is the best one whatever its score.
finalCategoryUnconditional(mlResult, combinedScores, bestCategory) == bestCategory

\* finalCategory = finalConfidence > 0.3 ? bestCategory : mlResult.category
finalCategoryOf(mlResult, combinedScores, bestCategory) ==
  IF finalConfidenceOf(mlResult, combinedScores, bestCategory) > AcceptanceThreshold
  THEN bestCategory
  ELSE mlResult.category

\* What categorizeMachine stores and returns for an mlResult and its scores
\* blended with the hints.
categorized(mlResult, combinedScores, bestCategory) ==
  [category |-> finalCategoryOf(mlResult, combinedScores, bestCategory),
   confidence |-> finalConfidenceOf(mlResult, combinedScores, bestCategory),
   method |-> mlResult.method,
   scores |-> combinedScores]

Combined(mlResult, amount) ==
  Only({scores : scores \in {blend(mlResult.scores, categorizeByAmount(amount), 1)}})

\* categorizeMachine up to its first query: the outcome it will store and return.
classify(expenseData, remote) ==
  Only({Only({categorized(mlResult, combinedScores, reduce(combinedScores)) :
                combinedScores \in {Combined(mlResult, expenseData.amount)}}) :
          mlResult \in {mlResultOf(expenseData, remote)}})

mlframe == <<active, created, reqs, nreq, ocr, sweeps, nsweep, system_settings>>

MlGoto(c, pc) == ml' = (ml (-) SetToBag({c})) (+) SetToBag({[c EXCEPT !.pc = pc]})

MlExit(c) == ml' = ml (-) SetToBag({c})

\* How a categorizeMachine or feedbackLearning call ends for its caller, with
\* the outcome it computed.
MlSettled(c, err) ==
  Response(c.fn, c.expense_id, NULL, NULL, 0, err)
    @@ [category |-> c.category, confidence |-> c.confidence, method |-> c.method]

\* An INSERT of the audit row that does not select from expenses.
AuditWhetherItExists(id, action) ==
  expense_audit_log (+) SetToBag({AuditRow(id, action, NULL, NULL)})

\* INSERT INTO expense_audit_log ... SELECT ... FROM expenses WHERE id = $1
AuditIfExists(id, action) ==
  IF id \in DOMAIN expenses
  THEN expense_audit_log (+) SetToBag({AuditRow(id, action, NULL, NULL)})
  ELSE expense_audit_log

\* The remote classifier answers that the pipelines are followed with: none,
\* another category than the entered one with its score, and a category the
\* expense_category enum does not have.
RemoteAnswers ==
  {Unreachable,
   [category |-> "travel", confidence |-> 8 * Tenth, method |-> "machine-learning",
    scores |-> [keys |-> <<"travel">>, val |-> [travel |-> 8 * Tenth]]],
   [category |-> "unknown", confidence |-> 9 * Tenth, method |-> "machine-learning",
    scores |-> EmptyObject]}

\* callMLService or, when it answers null, categorizeByRules; then the amount
\* hints are blended in and the best category and its confidence are taken.
MlClassify(c, remote) ==
  /\ BagIn(c, ml) /\ c.fn = "categorizeMachine" /\ c.pc = "classify"
  /\ LET outcome == classify(c.data, remote)
     IN ml' = (ml (-) SetToBag({c}))
                (+) SetToBag({[c EXCEPT !.remote = remote,
                                        !.category = outcome.category,
                                        !.confidence = outcome.confidence,
                                        !.method = outcome.method,
                                        !.pc = "update"]})
  /\ last' = NoResponse
  /\ UNCHANGED dbvars
  /\ UNCHANGED mlframe

\* The values of the expense_category enum.
ExpenseCategory == {categoryRules[i] : i \in DOMAIN categoryRules} \cup {"other"}

\* ml_confidence DECIMAL(3,2): the confidence as stored, in hundredths.
Decimal(confidence) == (100 * confidence + Scale \div 2) \div Scale

\* A suggestion that also replaces the category.
SuggestionOverridesCategory(c) ==
  [ml_suggested_category |-> c.category, ml_confidence |-> Decimal(c.confidence),
   category |-> c.category]

\* The columns UPDATE expenses SET ... of categorizeMachine writes.
Suggestion(c) ==
  [ml_suggested_category |-> c.category, ml_confidence |-> Decimal(c.confidence)]

\* UPDATE expenses SET ml_suggested_category, ml_confidence WHERE id: a value
\* outside the expense_category enum raises.
MlUpdate(c, ok) ==
  /\ BagIn(c, ml) /\ c.fn = "categorizeMachine" /\ c.pc = "update"
  /\ IF ok /\ c.category \in ExpenseCategory
     THEN SetExpense(c.expense_id, Suggestion(c)) /\ MlGoto(c, "audit")
     ELSE UNCHANGED expenses /\ MlGoto(c, "failed")
  /\ last' = NoResponse
  /\ UNCHANGED <<expense_audit_log, notifications, expense_comments, ocr_queue>>
  /\ UNCHANGED mlframe

MlAudit(c, ok) ==
  /\ BagIn(c, ml) /\ c.fn = "categorizeMachine" /\ c.pc = "audit"
  /\ IF ok
     THEN /\ expense_audit_log' = AuditIfExists(c.expense_id, "ml_categorized")
          /\ MlExit(c)
          /\ last' = MlSettled(c, NULL)
     ELSE /\ UNCHANGED expense_audit_log
          /\ MlGoto(c, "failed")
          /\ last' = NoResponse
  /\ UNCHANGED <<expenses, notifications, expense_comments, ocr_queue>>
  /\ UNCHANGED mlframe

\* The catch block: the failure is logged, then the error is thrown again.
MlFailed(c, ok) ==
  /\ BagIn(c, ml) /\ c.fn = "categorizeMachine" /\ c.pc = "failed"
  /\ expense_audit_log' =
       IF ok THEN AuditIfExists(c.expense_id, "ml_categorization_failed")
       ELSE expense_audit_log
  /\ MlExit(c)
  /\ last' = MlSettled(c, "ClassificationFailed")
  /\ UNCHANGED <<expenses, notifications, expense_comments, ocr_queue>>
  /\ UNCHANGED mlframe

\* A test that takes every suggestion for one to correct.
CorrectsAnySuggestion(expense, userCorrectedCategory) ==
  expense.ml_suggested_category # NULL

\* expense.ml_suggested_category && expense.ml_suggested_category !== userCorrectedCategory
Corrects(expense, userCorrectedCategory) ==
  /\ expense.ml_suggested_category # NULL
  /\ expense.ml_suggested_category # userCorrectedCategory

\* feedbackLearning: every error is caught and logged, never thrown.
FbSelect(c, ok) ==
  /\ BagIn(c, ml) /\ c.fn = "feedbackLearning" /\ c.pc = "select"
  /\ IF /\ ok
        /\ c.expense_id \in DOMAIN expenses
        /\ Corrects(expenses[c.expense_id], c.category)
     THEN MlGoto(c, "post") /\ last' = NoResponse
     ELSE MlExit(c) /\ last' = MlSettled(c, NULL)
  /\ UNCHANGED dbvars
  /\ UNCHANGED mlframe

\* axios.post(ML_SERVICE_URL/feedback)
FbPost(c, ok) ==
  /\ BagIn(c, ml) /\ c.fn = "feedbackLearning" /\ c.pc = "post"
  /\ IF ok
     THEN MlGoto(c, "audit") /\ last' = NoResponse
     ELSE MlExit(c) /\ last' = MlSettled(c, NULL)
  /\ UNCHANGED dbvars
  /\ UNCHANGED mlframe

FbAudit(c, ok) ==
  /\ BagIn(c, ml) /\ c.fn = "feedbackLearning" /\ c.pc = "audit"
  /\ expense_audit_log' =
       IF ok THEN AuditIfExists(c.expense_id, "ml_feedback") ELSE expense_audit_log
  /\ MlExit(c)
  /\ last' = MlSettled(c, NULL)
  /\ UNCHANGED <<expenses, notifications, expense_comments, ocr_queue>>
  /\ UNCHANGED mlframe

\* A call of feedbackLearning(expenseId, userCorrectedCategory) by any caller.
FeedbackLearning(id, category) ==
  /\ nreq < MaxFeedbackCalls
  /\ nreq' = nreq + 1
  /\ ml' = ml (+) SetToBag({FeedbackCall(id, category)})
  /\ last' = NoResponse
  /\ UNCHANGED dbvars
  /\ UNCHANGED <<active, created, reqs, ocr, sweeps, nsweep, system_settings>>

\* ------------------------------------------------------- trainMLModel
\* A trainMLModel call that is about to post its samples rows.
TrainCall(samples) ==
  [fn |-> "trainMLModel", expense_id |-> 0, category |-> NULL,
   data |-> NoData, remote |-> Unreachable, confidence |-> 0, method |-> NULL,
   samples |-> samples, pc |-> "post"]

\* A test that finds one row sufficient.
InsufficientBelowOne(n) == n < 1

\* trainingData.rows.length < 50
Insufficient(n) == n < TrainingMinimum

\* SELECT ... FROM expenses WHERE status IN ('approved', 'reimbursed') AND
\* created_at > NOW() - INTERVAL '6 months' ... LIMIT 1000: the number of rows.
\* Every expense of the model is younger than six months.
TrainingRows ==
  LET n == Cardinality({id \in DOMAIN expenses : Status(id) \in {"approved", "reimbursed"}})
  IN IF n < TrainingLimit THEN n ELSE TrainingLimit

\* trainMLModel up to its request: the SELECT raises, or there are too few
\* rows and the call returns, or the call goes on to post them.
TrainMLModel(ok) ==
  /\ IF ~ok
     THEN /\ last' = Response("trainMLModel", 0, NULL, NULL, 0, "TrainingFailed")
          /\ UNCHANGED ml
     ELSE IF Insufficient(TrainingRows)
     THEN /\ last' = Response("trainMLModel", 0, NULL, NULL, 0, NULL)
          /\ UNCHANGED ml
     ELSE /\ last' = NoResponse
          /\ ml' = ml (+) SetToBag({TrainCall(TrainingRows)})
  /\ UNCHANGED dbvars
  /\ UNCHANGED mlframe

\* What POST /train answers: nothing (the request fails or times out), or a
\* body with or without model_version and accuracy.
TrainerDown == [up |-> FALSE, model_version |-> NULL, accuracy |-> NULL]

TrainerAnswers ==
  {TrainerDown,
   [up |-> TRUE, model_version |-> "2.0", accuracy |-> "0.9"],
   [up |-> TRUE, model_version |-> "3.0", accuracy |-> "0.8"],
   [up |-> TRUE, model_version |-> NULL, accuracy |-> NULL]}

\* The value stored under 'ml_last_training' (without its timestamp).
TrainingInfo(samples, answer) ==
  [training_samples |-> samples,
   model_version |-> IF answer.model_version # NULL THEN answer.model_version ELSE "1.0",
   accuracy |-> answer.accuracy]

\* INSERT INTO system_settings ... ON CONFLICT (key) DO UPDATE SET value
UpsertSetting(settings, key, value) == (key :> value) @@ settings

\* How a trainMLModel call that posted its rows ends: return response.data,
\* or throw.
TrainSettled(c, answer, err) == [answer |-> answer] @@ MlSettled(c, err)

\* The request to the trainer, then the upsert; either may raise, and the
\* catch block rethrows.
TrainPost(c, answer, ok) ==
  /\ BagIn(c, ml) /\ c.fn = "trainMLModel" /\ c.pc = "post"
  /\ MlExit(c)
  /\ IF answer.up /\ ok
     THEN /\ system_settings' =
               UpsertSetting(system_settings, "ml_last_training",
                             TrainingInfo(c.samples, answer))
          /\ last' = TrainSettled(c, answer, NULL)
     ELSE /\ UNCHANGED system_settings
          /\ last' = TrainSettled(c, answer, "TrainingFailed")
  /\ UNCHANGED dbvars
  /\ UNCHANGED <<active, created, reqs, nreq, ocr, sweeps, nsweep>>

\* The steps of the categorizer.  With fewer than TrainingMinimum expenses no
\* trainMLModel call gets as far as its request.
Categorizer ==
  \/ \E c \in BagToSet(ml), remote \in RemoteAnswers : MlClassify(c, remote)
  \/ \E c \in BagToSet(ml), ok \in BOOLEAN : MlUpdate(c, ok)
  \/ \E c \in BagToSet(ml), ok \in BOOLEAN : MlAudit(c, ok)
  \/ \E c \in BagToSet(ml), ok \in BOOLEAN : MlFailed(c, ok)
  \/ \E c \in BagToSet(ml), ok \in BOOLEAN : FbSelect(c, ok)
  \/ \E c \in BagToSet(ml), ok \in BOOLEAN : FbPost(c, ok)
  \/ \E c \in BagToSet(ml), ok \in BOOLEAN : FbAudit(c, ok)
  \/ \E ok \in BOOLEAN : TrainMLModel(ok)

\* ------------------------------------------- the categorizer on its inputs
\* Titles, vendors, amounts (in cents, one in each bucket of categorizeByAmount)
\* and remote answers that are classified.  No comparison on them is decided
\* by the rounding of a double: the scores are compared as exact fractions.
TeamLunch == <<"T", "e", "a", "m", " ", "L", "u", "n", "c", "h">>

RestauranteCentral == <<"R", "e", "s", "t", "a", "u", "r", "a", "n", "t", "e", " ", "C", "e", "n", "t", "r", "a", "l">>

\* meals and office_supplies have one keyword each, of fourteen.
CoffeePaper == <<"c", "o", "f", "f", "e", "e", " ", "p", "a", "p", "e", "r">>

\* marketing and travel have one keyword each, of ten.
DesignTrip == <<"d", "e", "s", "i", "g", "n", " ", "t", "r", "i", "p">>

\* No keyword of any category.
Misc == <<"M", "i", "s", "c">>

TitleSamples == {TeamLunch, CoffeePaper, DesignTrip, Misc}

VendorSamples == {<<>>, RestauranteCentral}

AmountSamples == {1500, 8550, 25000, 60000}

ClassifyBodies ==
  [category : {"meals"}, amount : AmountSamples, file : {FALSE},
   title : TitleSamples, vendor : VendorSamples]

RemoteSamples ==
  RemoteAnswers \cup
  {[category |-> "meals", confidence |-> 6 * Tenth, method |-> "machine-learning",
    scores |-> [keys |-> <<"meals", "transportation">>,
                val |-> [meals |-> 6 * Tenth, transportation |-> 2 * Tenth]]],
   [category |-> "travel", confidence |-> 5 * Tenth, method |-> "machine-learning",
    scores |-> [keys |-> <<"travel", "meals">>,
                val |-> [travel |-> 5 * Tenth, meals |-> 6 * Tenth]]],
   [category |-> "other", confidence |-> 2 * Tenth, method |-> "machine-learning",
    scores |-> [keys |-> <<"software">>, val |-> [software |-> 2 * Tenth]]]}

\* POST / by one employee and the categorizeMachine call it starts.
NextClassify ==
  \/ \E body \in ClassifyBodies, failAt \in FailPoints : Create("emp", body, failAt)
  \/ \E c \in BagToSet(ml), remote \in RemoteSamples : MlClassify(c, remote)
  \/ \E c \in BagToSet(ml), ok \in BOOLEAN : MlUpdate(c, ok)
  \/ \E c \in BagToSet(ml), ok \in BOOLEAN : MlAudit(c, ok)
  \/ \E c \in BagToSet(ml), ok \in BOOLEAN : MlFailed(c, ok)

\* The requests that create, change and remove receipts, here by one employee
\* and with one category: the OCR runs read neither.
OcrBodies == {body \in Bodies : body.category = "meals"}

Receipts ==
  \/ \E body \in OcrBodies, failAt \in FailPoints : Create("emp", body, failAt)
  \/ \E id \in ExpenseIds, body \in OcrBodies :
        nreq < MaxOcrCalls /\ Update("emp", id, body)
  \/ \E id \in ExpenseIds : nreq < MaxOcrCalls /\ Delete("emp", id)
  \/ \E r \in BagToSet(reqs), failAt \in FailPoints : UpdateTx(r, failAt)
  \/ \E r \in BagToSet(reqs), failAt \in FailPoints : DeleteTx(r, failAt)

\* What extractTextFromImage returned, and then what parseReceiptData made of it.
Extracted(ocrResult) == [op |-> "extractTextFromImage", ocrResult |-> ocrResult]

ParseReceiptData ==
  /\ last.op = "extractTextFromImage"
  /\ last' = [op |-> "parseReceiptData", ocrResult |-> last.ocrResult,
              parsedData |-> parseReceiptData(last.ocrResult)]
  /\ UNCHANGED dbvars
  /\ UNCHANGED <<active, created, reqs, nreq, ocr, sweeps, nsweep, ml, system_settings>>

\* The receipts that are parsed: texts with an amount after "Total", before
\* "total" and at the end of a line, with a date in figures and in words, and
\* without either; key-value pairs with parseable and unparseable values.
FullTexts ==
  {<<"A", "C", "M", "E", "\n", "T", "o", "t", "a", "l", ":", " ", "$", "2", "5", ".", "0", "0", "\n", "0", "1", "/", "2", "0", "/", "2", "0", "2", "5">>,
   <<"C", "a", "f", "e", " ", "S", "o", "l", "\n", "2", "0", " ", "J", "a", "n", " ", "2", "0", "2", "5", "\n", "1", "2", ",", "5", "0", " ", "t", "o", "t", "a", "l">>,
   <<"T", "a", "x", "i", "\n", "f", "a", "r", "e", " ", "9", ".", "9", "0">>,
   <<>>,
   <<"n", "o", " ", "f", "i", "g", "u", "r", "e", "s">>}

PairPool ==
  {[key |-> <<"t", "o", "t", "a", "l">>, value |-> <<"3", "0", ".", "0", "0">>],
   [key |-> <<"a", "m", "o", "u", "n", "t">>, value |-> <<"R", "$", " ", "4", "5", ",", "1", "0">>],
   [key |-> <<"t", "o", "t", "a", "l", " ", "d", "u", "e">>, value |-> <<"n", "/", "a">>],
   [key |-> <<"d", "a", "t", "e">>, value |-> <<"2", "0", "2", "5", "-", "0", "1", "-", "2", "1">>],
   [key |-> <<"d", "a", "t", "e", "t", "i", "m", "e">>, value |-> <<"s", "o", "o", "n">>],
   [key |-> <<"v", "e", "n", "d", "o", "r">>, value |-> <<"S", "a", "m", "p", "l", "e", " ", "V", "e", "n", "d", "o", "r">>],
   [key |-> <<"d", "a", "t", "e", " ", "i", "s", "s", "u", "e", "d">>, value |-> <<"0", "1", "/", "2", "2", "/", "2", "0", "2", "5">>]}

MaxPairs == 2

KeyValuePairs ==
  {pairs \in UNION {[1..n -> PairPool] : n \in 0..MaxPairs} :
     \A i, j \in DOMAIN pairs : i # j => pairs[i].key # pairs[j].key}

OcrResults == [fullText : FullTexts, keyValuePairs : KeyValuePairs]

\* ------------------------------------------------------------------ claims
LifecycleOps == {"submit", "approve", "reject", "request-changes", "reimburse"}

\* The source status each transition requires and the status it sets.
Required(op) ==
  CASE op = "submit" -> "draft"
    [] op \in {"approve", "reject", "request-changes"} -> "pending"
    [] op = "reimburse" -> "approved"

Target(op) ==
  CASE op = "submit" -> "pending"
    [] op = "approve" -> "approved"
    [] op = "reject" -> "rejected"
    [] op = "request-changes" -> "changes_requested"
    [] op = "reimburse" -> "reimbursed"

Action(op) ==
  CASE op = "submit" -> "submitted"
    [] op = "approve" -> "approved"
    [] op = "reject" -> "rejected"
    [] op = "request-changes" -> "changes_requested"
    [] op = "reimburse" -> "reimbursed"

TransitionRow(id, op) == AuditRow(id, Action(op), Required(op), Target(op))

\* C1: two concurrent approve calls on one pending expense: exactly one
\* succeeds, so the expense never has two 'approved' audit entries.
C1_SingleApproval ==
  \A id \in ExpenseIds :
    CopiesIn(TransitionRow(id, "approve"), expense_audit_log) <= 1

\* C2: a transition succeeds only when the status its handler read is the
\* required one, and a handler that read any other status answers 400
\* InvalidTransition; no request passes its guards on another status.
C2_GuardedTransitions ==
  /\ \A r \in BagToSet(reqs) :
       r.op \in LifecycleOps => r.expense.status = Required(r.op)
  /\ last.op \in LifecycleOps =>
       /\ last.code = 200 => last.seen = Required(last.op)
       /\ last.seen \notin {NULL, Required(last.op)} =>
            last.code = 400 /\ last.err = "InvalidTransition"
       /\ last.err = "InvalidTransition" =>
            last.seen \in ExpenseStatus \ {Required(last.op)}

C2_Witness ==
  /\ last.op = "reimburse"
  /\ last.seen = "rejected"
  /\ last.err = "InvalidTransition"

\* C3: every change of an expense's status is a legal transition.
LegalTransitions ==
  {<<"draft", "pending">>, <<"pending", "approved">>, <<"pending", "rejected">>,
   <<"pending", "changes_requested">>, <<"approved", "reimbursed">>}

C3_LegalTransitions ==
  [][\A id \in DOMAIN expenses \cap DOMAIN expenses' :
       Status(id) # Status(id)' => <<Status(id), Status(id)'>> \in LegalTransitions]_vars

\* C4: a lifecycle call that fails leaves every table as it was, and one that
\* succeeds sets the status, appends its audit entry and inserts its
\* notification in the same step.
NotificationType(op) ==
  CASE op = "submit" -> "approval_request"
    [] op = "approve" -> "expense_approved"
    [] op = "reject" -> "expense_rejected"
    [] op = "request-changes" -> "changes_requested"
    [] op = "reimburse" -> "expense_reimbursed"

NotificationRow(id, op) == [type |-> NotificationType(op), related_expense_id |-> id]

C4_AtomicTransitions ==
  [][last'.op \in LifecycleOps =>
       IF last'.code = 200
       THEN /\ last'.id \in DOMAIN expenses'
            /\ expenses'[last'.id].status = Target(last'.op)
            /\ expense_audit_log' =
                 expense_audit_log (+) SetToBag({TransitionRow(last'.id, last'.op)})
            /\ notifications' =
                 notifications (+) SetToBag({NotificationRow(last'.id, last'.op)})
       ELSE UNCHANGED dbvars]_vars

C4_Witness ==
  /\ last.op = "approve"
  /\ last.code = 500
  /\ last.id \in DOMAIN expenses
  /\ Status(last.id) = "pending"
  /\ CopiesIn(TransitionRow(last.id, "submit"), expense_audit_log) = 1

\* C5: once an expense is not draft, no step changes its category, amount or
\* receipt, and none deletes it.
C5_DraftOnlyMutation ==
  [][\A id \in DOMAIN expenses :
       Status(id) # "draft" =>
         /\ id \in DOMAIN expenses'
         /\ expenses'[id].category = expenses[id].category
         /\ expenses'[id].amount = expenses[id].amount
         /\ expenses'[id].receipt_url = expenses[id].receipt_url]_vars

\* C6: the audit log only grows: no step removes or changes an entry.
C6_AuditAppendOnly ==
  [][expense_audit_log \sqsubseteq expense_audit_log']_vars

\* C7: a step changes an expense's status exactly when it appends one audit
\* entry whose old and new status are the status before and after the step.
TransitionRows(id) ==
  {AuditRow(id, Action(op), Required(op), Target(op)) : op \in LifecycleOps}

NewRows(id) ==
  {row \in TransitionRows(id) :
     CopiesIn(row, expense_audit_log') > CopiesIn(row, expense_audit_log)}

C7_AuditMatchesTransition ==
  [][\A id \in DOMAIN expenses \cap DOMAIN expenses' :
       /\ Status(id) # Status(id)' => Cardinality(NewRows(id)) = 1
       /\ \A row \in NewRows(id) :
            /\ row.old_status = Status(id)
            /\ row.new_status = Status(id)'
            /\ CopiesIn(row, expense_audit_log') = CopiesIn(row, expense_audit_log) + 1]_vars

\* C8: a reimbursed expense stays reimbursed and receives no second
\* reimbursement entry.
C8_ReimbursedIsFinal ==
  [][\A id \in DOMAIN expenses :
       Status(id) = "reimbursed" =>
         /\ id \in DOMAIN expenses'
         /\ Status(id)' = "reimbursed"
         /\ CopiesIn(TransitionRow(id, "reimburse"), expense_audit_log') =
              CopiesIn(TransitionRow(id, "reimburse"), expense_audit_log)
         /\ CopiesIn(NotificationRow(id, "reimburse"), notifications') =
              CopiesIn(NotificationRow(id, "reimburse"), notifications)]_vars

\* C9: an expense in changes_requested can return to pending.  Only the
\* transaction of submit writes 'pending', so there is a way back exactly when
\* a submit has passed its guards or the owner's submit (or update) can pass
\* them now.
SubmitInFlight(id) == \E r \in BagToSet(reqs) : r.op = "submit" /\ r.id = id

C9_Resubmittable ==
  \A id \in DOMAIN expenses :
    Status(id) = "changes_requested" =>
      SubmitInFlight(id) \/ OwnerGuardPasses(expenses[id].user_id, id)

\* What closes the case of C9: an expense that is gone, or is neither draft nor
\* pending with no submit in flight, stays so; 'pending' is out of reach.
NoWayBack(id) ==
  \/ id \notin DOMAIN expenses
  \/ Status(id) \notin {"draft", "pending"} /\ ~SubmitInFlight(id)

C9_NoWayBackIsClosed ==
  [][\A id \in ExpenseIds : (id <= created /\ NoWayBack(id)) => NoWayBack(id)']_vars

C9_Stuck ==
  \E id \in DOMAIN expenses : Status(id) = "changes_requested" /\ NoWayBack(id)

\* A processReceiptOCR call at one of these statements has written 'processing'
\* to the expense and to its job, and has not yet written the job's 'completed'
\* or 'failed'.
InFlightPcs == {"extract", "expense_completed", "queue_completed"}

InFlight(id) ==
  BagCardinality([p \in {q \in BagToSet(ocr) :
                           q.expense_id = id /\ q.pc \in InFlightPcs} |-> ocr[p]])

\* C10: at most one extraction attempt is in flight for an expense at any
\* time, whichever of creation, update and the retry sweeps started it.
C10_SingleFlight == \A id \in ExpenseIds : InFlight(id) <= 1

\* C11: every job has 0 <= attempts <= max_attempts, in every reachable state.
C11_AttemptsBounded ==
  \A i \in DOMAIN ocr_queue :
    /\ 0 <= ocr_queue[i].attempts
    /\ ocr_queue[i].attempts <= ocr_queue[i].max_attempts

\* A step in which a retry sweep starts processReceiptOCR call p.
StartedBySweep(p) ==
  /\ p.sweep # 0
  /\ p.pc = "expense_processing"
  /\ CopiesIn(p, ocr') > CopiesIn(p, ocr)

\* C12: when a sweep starts an extraction, the job's attempts are below its
\* max_attempts at that moment.
C12_RetryBelowMaxAttempts ==
  [][\A p \in BagToSet(ocr') :
       StartedBySweep(p) =>
         \A i \in DOMAIN ocr_queue :
           ocr_queue[i].expense_id = p.expense_id =>
             ocr_queue[i].attempts < ocr_queue[i].max_attempts]_vars

\* C14: a job that is failed with its attempts used up keeps its status and
\* attempts, and its expense keeps its ocr_status, in every later step.
Exhausted(job) == job.status = "failed" /\ job.attempts >= job.max_attempts

C14_ExhaustedIsTerminal ==
  [][\A i \in DOMAIN ocr_queue :
       Exhausted(ocr_queue[i]) =>
         /\ i \in DOMAIN ocr_queue'
         /\ ocr_queue'[i].status = "failed"
         /\ ocr_queue'[i].attempts = ocr_queue[i].attempts
         /\ \A id \in DOMAIN expenses :
              id = ocr_queue[i].expense_id =>
                /\ id \in DOMAIN expenses'
                /\ expenses'[id].ocr_status = expenses[id].ocr_status]_vars

\* C15: retrying terminates.  The attempts a job receives in total are at
\* least those it has recorded plus the calls now running for it, and a job
\* that is 'processing' ends as completed or failed only through a call that
\* is running for it or that a sweep still has in its batch.
CallsFor(id) ==
  BagCardinality([p \in {q \in BagToSet(ocr) : q.expense_id = id} |-> ocr[p]])

Batched(id) ==
  \E sw \in BagToSet(sweeps) : \E k \in DOMAIN sw.jobs : sw.jobs[k] = id

AttemptsInTotal(job) == job.attempts + CallsFor(job.expense_id)

Stuck(job) ==
  /\ job.status = "processing"
  /\ CallsFor(job.expense_id) = 0
  /\ ~Batched(job.expense_id)

C15_RetryTerminates ==
  \A i \in DOMAIN ocr_queue :
    /\ AttemptsInTotal(ocr_queue[i]) <= ocr_queue[i].max_attempts
    /\ ~Stuck(ocr_queue[i])

\* What makes a stuck job final: no step of the pipeline changes it.
C15_StuckIsClosed ==
  [][\A i \in DOMAIN ocr_queue :
       Stuck(ocr_queue[i]) => i \in DOMAIN ocr_queue' /\ Stuck(ocr_queue[i])']_vars

C15_TooManyAttempts ==
  \A i \in DOMAIN ocr_queue :
    AttemptsInTotal(ocr_queue[i]) <= ocr_queue[i].max_attempts

C15_NeverStuck == \A i \in DOMAIN ocr_queue : ~Stuck(ocr_queue[i])

\* C13: what one retryOCRProcessing call selects and starts.
\* The place of an expense's job in the queue (created_at order).
Pos(queue, id) == CHOOSE i \in DOMAIN queue : queue[i].expense_id = id

\* jobs is a batch of queue: at most RetryBatchLimit distinct jobs, each failed,
\* below max_attempts and inside the window, in created_at order, and no
\* retryable job left out is older than one taken.
IsBatch(queue, jobs) ==
  /\ Len(jobs) <= RetryBatchLimit
  /\ \A k \in DOMAIN jobs :
       \E i \in DOMAIN queue : queue[i].expense_id = jobs[k] /\ Retryable(queue[i])
  /\ \A k, l \in DOMAIN jobs : k < l => Pos(queue, jobs[k]) < Pos(queue, jobs[l])
  /\ \A i \in DOMAIN queue :
       (Retryable(queue[i]) /\ \A k \in DOMAIN jobs : jobs[k] # queue[i].expense_id) =>
         /\ Len(jobs) = RetryBatchLimit
         /\ \A k \in DOMAIN jobs : Pos(queue, jobs[k]) < i

JobsOf(queue, id) == {i \in DOMAIN queue : queue[i].expense_id = id}

\* The expense has exactly one job: for this receipt, pending, never attempted.
Enqueued(queue, id, url) ==
  /\ Cardinality(JobsOf(queue, id)) = 1
  /\ \A i \in JobsOf(queue, id) :
        /\ queue[i].receipt_url = url
        /\ queue[i].status = "pending"
        /\ queue[i].attempts = 0

\* C16: no expense ever has more than one job row, and the enqueue of an update
\* that carries a new receipt succeeds on the tables as they are: it leaves the
\* expense exactly one job, which holds the new receipt location, is pending
\* and has attempts 0.
C16_EnqueueReplaces ==
  /\ \A id \in ExpenseIds : Cardinality(JobsOf(ocr_queue, id)) <= 1
  /\ \A r \in BagToSet(reqs) :
        r.op = "update" /\ r.body.file /\ r.id \in DOMAIN expenses =>
          LET d == UpsertOcrQueue(DB, r.id, r.url)
          IN ~d.error /\ Enqueued(d.ocr_queue, r.id, r.url)

\* C17: a processReceiptOCR call never ends by raising to its caller.
C17_RunOneNeverRaises == last.op = "processReceiptOCR" => last.err = NULL

\* The values of the ocr_status enum.
OcrStatus == {"pending", "processing", "completed", "failed"}

\* The statements of the transaction a lifecycle handler runs.
TransitionStmts(db, r) ==
  CASE r.op = "submit" -> SubmitStmts(db, r)
    [] r.op = "approve" -> ApproveStmts(db, r)
    [] r.op = "reject" -> RejectStmts(db, r)
    [] r.op = "request-changes" -> RequestChangesStmts(db, r)
    [] r.op = "reimburse" -> ReimburseStmts(db, r)

\* C18: status and ocr_status are independent.  A step changes the status of
\* an expense only as a lifecycle transition that answers 200, and that step
\* leaves ocr_status alone; a step that changes ocr_status is no lifecycle
\* transition and leaves status alone; the transaction of a lifecycle handler
\* succeeds and sets the same status whatever ocr_status is; and the guard of
\* submit passes for the owner of every draft, whatever its ocr_status.
C18_StatusIndependentOfOcrStatus ==
  /\ [][\A id \in DOMAIN expenses \cap DOMAIN expenses' :
          /\ expenses'[id].status # expenses[id].status =>
                /\ last'.op \in LifecycleOps /\ last'.code = 200 /\ last'.id = id
                /\ expenses'[id].ocr_status = expenses[id].ocr_status
          /\ expenses'[id].ocr_status # expenses[id].ocr_status =>
                /\ last'.op \notin LifecycleOps
                /\ expenses'[id].status = expenses[id].status]_vars
  /\ [](\A r \in BagToSet(reqs), o \in OcrStatus :
          r.op \in LifecycleOps /\ r.id \in DOMAIN expenses =>
            LET other == [DB EXCEPT !.expenses[r.id].ocr_status = o]
                here == transaction(DB, TransitionStmts(DB, r), 0)
                there == transaction(other, TransitionStmts(other, r), 0)
            IN /\ here.ok /\ there.ok
               /\ here.db.expenses[r.id].status = there.db.expenses[r.id].status
               /\ there.db.expenses[r.id].ocr_status = o)
  /\ [](\A id \in DOMAIN expenses :
          Status(id) = "draft" => OwnerGuardPasses(expenses[id].user_id, id))

\* A submit answered 200 on an expense whose extraction had failed and was
\* left failed.
C18_Witness ==
  /\ last.op = "submit"
  /\ last.code = 200
  /\ last.id \in DOMAIN expenses
  /\ Status(last.id) = "pending"
  /\ expenses[last.id].ocr_status = "failed"

\* The columns of an expense that categorizeMachine may write.
MlColumns == {"ml_suggested_category", "ml_confidence"}

\* The actions of the audit rows the categorizer inserts.
MlActions == {"ml_categorized", "ml_categorization_failed", "ml_feedback"}

\* A step of categorizeMachine, feedbackLearning or trainMLModel.
CategorizerStep ==
  \/ ml' # ml /\ last'.op \notin {"create", "approve"}
  \/ last'.op = "trainMLModel"

\* A step of processReceiptOCR.
ExtractionStep == ocr' # ocr /\ last'.op \notin {"create", "update"}

\* C19: no step of the categorizer or of an extraction changes the category
\* of an expense.  A categorizer step keeps every expense, changes no column
\* of it other than ml_suggested_category and ml_confidence, leaves the
\* notifications, the comments and the queue alone, and adds at most audit
\* rows of its own kinds.
C19_CategoryIsHumanEntered ==
  [][/\ CategorizerStep \/ ExtractionStep =>
          /\ DOMAIN expenses' = DOMAIN expenses
          /\ \A id \in DOMAIN expenses :
                expenses'[id].category = expenses[id].category
     /\ CategorizerStep =>
          /\ \A id \in DOMAIN expenses :
                \A f \in DOMAIN expenses[id] \ MlColumns :
                  expenses'[id][f] = expenses[id][f]
          /\ UNCHANGED <<notifications, expense_comments, ocr_queue>>
          /\ expense_audit_log \sqsubseteq expense_audit_log'
          /\ \A row \in BagToSet(expense_audit_log' (-) expense_audit_log) :
                row.action \in MlActions]_vars

\* categorizeMachine has suggested another category than the one the employee
\* entered, and logged it; the entered one is still there.
C19_Witness ==
  \E id \in DOMAIN expenses :
    /\ expenses[id].category = "meals"
    /\ expenses[id].ml_suggested_category = "travel"
    /\ last.op = "categorizeMachine" /\ last.err = NULL
    /\ BagIn(AuditRow(id, "ml_categorized", NULL, NULL), expense_audit_log)

\* The columns of an expense that a creation or an update writes.
EnteredColumns == {"category", "amount", "receipt_url"}

\* C20: a creation or an update commits and answers success whatever becomes
\* of the extraction and the categorization it triggers.  No step of either
\* pipeline removes an expense or changes a column that the request wrote,
\* and the transaction of every update in flight, the enqueue of its new
\* receipt included, commits unless the server fails one of its statements.
C20_RequestsOutliveThePipelines ==
  /\ [][CategorizerStep \/ ExtractionStep =>
          \A id \in DOMAIN expenses :
            /\ id \in DOMAIN expenses'
            /\ \A f \in EnteredColumns : expenses'[id][f] = expenses[id][f]]_vars
  /\ [](\A r \in BagToSet(reqs) :
          r.op = "update" /\ r.id \in DOMAIN expenses =>
            transaction(DB, UpdateStmts(DB, r), 0).ok)

\* The categorizeMachine calls that have computed their outcome.
Classified == {c \in BagToSet(ml) : c.fn = "categorizeMachine" /\ c.pc # "classify"}

\* C21: a categorizeMachine call whose remote request failed or timed out goes
\* on to its UPDATE with the outcome of the rule-based scores, whose method is
\* rule-based; it ends with an error only after a query of its own failed.
C21_RemoteFailureFallsBack ==
  /\ [](\A c \in Classified :
          c.remote = Unreachable =>
            /\ c.method = "rule-based"
            /\ c.category = classify(c.data, Unreachable).category
            /\ mlResultOf(c.data, c.remote) = categorizeByRules(c.data))
  /\ [][\A c \in BagToSet(ml) :
          c.fn = "categorizeMachine" /\ c.pc = "classify" /\ ~BagIn(c, ml') =>
            /\ last'.op # "categorizeMachine"
            /\ \E d \in BagToSet(ml') : d.expense_id = c.expense_id /\ d.pc = "update"]_vars
  /\ [][last'.op = "categorizeMachine" /\ last'.err # NULL =>
          \E c \in BagToSet(ml) : c.pc = "failed"]_vars

\* A call with the remote classifier down has stored its rule-based outcome
\* and returned it.
C21_Witness ==
  /\ last.op = "categorizeMachine"
  /\ last.err = NULL
  /\ last.method = "rule-based"
  /\ last.id \in DOMAIN expenses
  /\ expenses[last.id].ml_suggested_category = last.category
  /\ BagIn(AuditRow(last.id, "ml_categorized", NULL, NULL), expense_audit_log)

\* The expense of the scenario.
TeamLunchData ==
  [title |-> TeamLunch, description |-> <<>>, vendor |-> RestauranteCentral,
   amount |-> 8550]

\* C22: for "Team Lunch" at "Restaurante Central", 85.50, with the remote
\* classifier unreachable, meals has the highest rule-based score, and the
\* outcome is meals, rule-based, with a confidence above 0.3.
C22_TeamLunchIsMeals ==
  \A c \in Classified :
    c.data = TeamLunchData /\ c.remote = Unreachable =>
      /\ categorizeByRules(c.data).category = "meals"
      /\ c.category = "meals"
      /\ c.method = "rule-based"
      /\ c.confidence > AcceptanceThreshold

\* C23: where several categories share the greatest score, the one chosen is
\* the first of them in the order of the keys, in the rule-based scores (when
\* any keyword matched) and in the combined scores (when the best is accepted).
C23_TiesTakeTheFirst ==
  \A c \in Classified :
    LET mlResult == mlResultOf(c.data, c.remote)
        combinedScores == Combined(mlResult, c.data.amount)
    IN /\ c.remote = Unreachable /\ mlResult.confidence > 0 =>
            mlResult.category = reduceKeepingFirst(mlResult.scores)
       /\ c.confidence > AcceptanceThreshold =>
            c.category = reduceKeepingFirst(combinedScores)

\* The greatest of the scores.
MaxScore(scores) ==
  LET values == {scores.val[scores.keys[i]] : i \in DOMAIN scores.keys}
  IN CHOOSE v \in values : \A w \in values : w <= v

\* C29: the final category has the greatest combined score when that score
\* exceeds 0.3, and is the category of the remote or rule-based step otherwise.
C29_ThresholdedArgMax ==
  \A c \in Classified :
    LET mlResult == mlResultOf(c.data, c.remote)
        combinedScores == Combined(mlResult, c.data.amount)
    IN IF MaxScore(combinedScores) > AcceptanceThreshold
       THEN Get(combinedScores, c.category) = MaxScore(combinedScores)
       ELSE c.category = mlResult.category

\* The remote classifier answered travel; meals has the greatest combined
\* score, which is accepted.
C29_Witness ==
  \E c \in Classified :
    /\ c.remote.category = "travel"
    /\ c.category = "meals"
    /\ c.confidence > AcceptanceThreshold

\* C30: the confidence of an outcome is the score of its category: its
\* combined score or, where the category is the one of the remote or
\* rule-based step, the confidence of that step; and it is what is stored.
C30_ConfidenceOfTheCategory ==
  /\ \A c \in Classified :
        LET mlResult == mlResultOf(c.data, c.remote)
            combinedScores == Combined(mlResult, c.data.amount)
        IN \/ c.confidence = Get(combinedScores, c.category) /\ Has(combinedScores, c.category)
           \/ c.confidence = mlResult.confidence /\ c.category = mlResult.category
  /\ last.op = "categorizeMachine" /\ last.err = NULL /\ last.id \in DOMAIN expenses =>
        /\ expenses[last.id].ml_suggested_category = last.category
        /\ expenses[last.id].ml_confidence = Decimal(last.confidence)

\* The feedbackLearning call c has nothing to correct: its expense has no
\* suggestion, or the one it has is the corrected category.
NothingToCorrect(c) ==
  /\ c.expense_id \in DOMAIN expenses
  /\ expenses[c.expense_id].ml_suggested_category \in {NULL, c.category}

\* C24: when a feedbackLearning call reads an expense whose suggestion is the
\* corrected category, or which has none, the call ends there: it returns
\* without error, no table changes, and no call goes on to the remote request;
\* this at every one of the calls.
C24_FeedbackWithoutCorrection ==
  [][\A c \in BagToSet(ml) :
       /\ c.fn = "feedbackLearning" /\ c.pc = "select"
       /\ CopiesIn(c, ml') < CopiesIn(c, ml)
       /\ NothingToCorrect(c)
       => /\ UNCHANGED dbvars
          /\ ml' = ml (-) SetToBag({c})
          /\ last'.op = "feedbackLearning" /\ last'.err = NULL]_vars

\* feedbackLearning was called MaxFeedbackCalls times with the category that
\* is the suggestion; every call has returned and there is no feedback row.
C24_Witness ==
  /\ nreq = MaxFeedbackCalls
  /\ ml = EmptyBag
  /\ last.op = "feedbackLearning"
  /\ last.id \in DOMAIN expenses
  /\ expenses[last.id].ml_suggested_category = last.category
  /\ ~BagIn(AuditRow(last.id, "ml_feedback", NULL, NULL), expense_audit_log)

\* This step ends the handling of request r.
Answered(r) == CopiesIn(r, reqs') < CopiesIn(r, reqs)

\* This step starts a feedbackLearning call for expense id.
FeedbackStarted(id) ==
  \E c \in BagToSet(ml') :
    /\ c.fn = "feedbackLearning" /\ c.expense_id = id /\ c.pc = "select"
    /\ CopiesIn(c, ml') > CopiesIn(c, ml)

\* C25: a feedbackLearning call starts only in the step that commits an
\* approval, never with a rejection or a request for changes, and an approval
\* that commits starts one exactly when the approved expense has a suggested
\* category other than its category.
C25_ApprovalTriggersFeedback ==
  [][/\ \A id \in ExpenseIds :
          FeedbackStarted(id) =>
            \E r \in BagToSet(reqs) :
              /\ Answered(r) /\ r.op = "approve" /\ r.id = id
              /\ last'.code = 200
              /\ expenses'[id].status = "approved"
     /\ \A r \in BagToSet(reqs) :
          Answered(r) /\ r.op = "approve" /\ last'.code = 200 =>
            (FeedbackStarted(r.id) <=>
               /\ expenses'[r.id].ml_suggested_category # NULL
               /\ expenses'[r.id].ml_suggested_category # expenses'[r.id].category)
    ]_vars

\* The first conjunct of C25 alone: what holds of the code.
C25_FeedbackOnlyWithApproval ==
  [][\A id \in ExpenseIds :
       FeedbackStarted(id) =>
         \E r \in BagToSet(reqs) :
           /\ Answered(r) /\ r.op = "approve" /\ r.id = id
           /\ last'.code = 200
           /\ expenses'[id].status = "approved"]_vars

\* No processReceiptOCR call for expense id is in flight.
AttemptsFinished(id) == \A p \in BagToSet(ocr) : p.expense_id # id

\* C26: when no extraction attempt for an expense is in flight, the expense's
\* ocr_status is the status of its job.
C26_OcrStatusIsTheJobStatus ==
  \A id \in DOMAIN expenses :
    AttemptsFinished(id) =>
      \A i \in JobsOf(ocr_queue, id) : ocr_queue[i].status = expenses[id].ocr_status

C27_OcrDataOfTheOnlyReceipt ==
  \A id \in DOMAIN expenses :
    AttemptsFinished(id) /\ expenses[id].ocr_status = "completed" =>
      expenses[id].ocr_data.receipt = expenses[id].receipt_url

\* The audit rows of expense id that tell of a failed extraction: those of
\* another action than the creation and the completed extraction.
FailureAuditEntries(id) ==
  {row \in BagToSet(expense_audit_log) :
     row.expense_id = id /\ row.action \notin {"created", "ocr_processed"}}

\* C28: when a processReceiptOCR call has ended by raising, the audit trail of
\* its expense has a row that tells of the failure.
C28_FailedAttemptIsAudited ==
  last.op = "processReceiptOCR" /\ last.err # NULL /\ last.id \in DOMAIN expenses =>
    FailureAuditEntries(last.id) # {}

\* This step ends the feedbackLearning call c, which had found a suggestion to
\* correct.
CorrectionEnds(c) ==
  /\ c.fn = "feedbackLearning" /\ c.pc \in {"post", "audit"}
  /\ CopiesIn(c, ml') < CopiesIn(c, ml)
  /\ last'.op = "feedbackLearning"

\* C31: a feedbackLearning call that found a suggestion other than the
\* corrected category ends without an error for its caller and with exactly
\* one 'ml_feedback' row appended for its expense, whatever became of the
\* request to the remote classifier.
C31_CorrectionIsAudited ==
  [][\A c \in BagToSet(ml) :
       CorrectionEnds(c) =>
         /\ last'.err = NULL
         /\ expense_audit_log' = expense_audit_log (+)
              SetToBag({AuditRow(c.expense_id, "ml_feedback", NULL, NULL)})]_vars

\* The part of C31 that is about the caller: no feedbackLearning call ends
\* with an error.
C31_FeedbackNeverRaises == last.op = "feedbackLearning" => last.err = NULL

\* This step is one of the processReceiptOCR call p, which was at statement pc.
StepOf(p, pc) == p.pc = pc /\ CopiesIn(p, ocr') < CopiesIn(p, ocr)

\* The job rows of expense id are marked failed: status, one more attempt, and
\* the message; every other row and column is as before.
MarkedFailed(id) ==
  /\ Len(ocr_queue') = Len(ocr_queue)
  /\ \A i \in DOMAIN ocr_queue :
        IF ocr_queue[i].expense_id = id
        THEN /\ ocr_queue'[i].status = "failed"
             /\ ocr_queue'[i].attempts = ocr_queue[i].attempts + 1
             /\ ocr_queue'[i].error_message # NULL
             /\ \A f \in DOMAIN ocr_queue[i] \ {"status", "attempts", "error_message"} :
                   ocr_queue'[i][f] = ocr_queue[i][f]
        ELSE ocr_queue'[i] = ocr_queue[i]

KeysOf(obj) == {obj.keys[i] : i \in DOMAIN obj.keys}

\* C33: the combined scores have a value for exactly the categories of the
\* step-1/2 scores and of the amount hints: the average of score and hint
\* where both are present (a score of 0 included), half the hint where only
\* the hint is, and the score where only the score is.
C33_CombinedScores ==
  \A c \in Classified :
    LET scores == mlResultOf(c.data, c.remote).scores
        amountHints == categorizeByAmount(c.data.amount)
        combinedScores == Combined(mlResultOf(c.data, c.remote), c.data.amount)
    IN /\ KeysOf(combinedScores) = KeysOf(scores) \cup KeysOf(amountHints)
       /\ \A category \in KeysOf(combinedScores) :
             IF Has(scores, category) /\ Has(amountHints, category)
             THEN 2 * combinedScores.val[category] =
                    scores.val[category] + amountHints.val[category]
             ELSE IF Has(amountHints, category)
             THEN 2 * combinedScores.val[category] = amountHints.val[category]
             ELSE combinedScores.val[category] = scores.val[category]

\* A classification in which one category has a score of 0 and a hint,
\* another a score and a hint, and a third a score and no hint.
C33_Witness ==
  \E c \in Classified :
    LET scores == mlResultOf(c.data, c.remote).scores
        amountHints == categorizeByAmount(c.data.amount)
        combinedScores == Combined(mlResultOf(c.data, c.remote), c.data.amount)
    IN /\ \E category \in KeysOf(amountHints) :
            /\ Has(scores, category) /\ scores.val[category] = 0
            /\ combinedScores.val[category] > 0
       /\ \E category \in KeysOf(amountHints) :
            Has(scores, category) /\ scores.val[category] > 0
       /\ \E category \in KeysOf(scores) :
            ~Has(amountHints, category) /\ scores.val[category] > 0

\* C34: the approver a submit selects is an active user whose role is approver
\* or admin, and a submit that succeeds stores that user as the expense's
\* approver; a submit that finds no such user answers 500 and writes nothing:
\* the expense stays draft, without a new audit row or notification.
C34_SubmitAssignsAnApprover ==
  [][/\ \A r \in BagToSet(reqs') :
          r.op = "submit" /\ CopiesIn(r, reqs') > CopiesIn(r, reqs) =>
            r.approver \in active /\ Role(r.approver) \in {"approver", "admin"}
     /\ \A r \in BagToSet(reqs) :
          Answered(r) /\ r.op = "submit" /\ last'.code = 200 /\ r.id \in DOMAIN expenses' =>
            /\ expenses'[r.id].approver_id = r.approver
            /\ expenses'[r.id].status = "pending"
     /\ last'.op = "submit" /\ last'.err = "NoApprovers" =>
          /\ \A u \in active : Role(u) \notin {"approver", "admin"}
          /\ last'.code = 500
          /\ UNCHANGED dbvars
          /\ expenses[last'.id].status = "draft"]_vars
  /\ []((\A u \in active : Role(u) \notin {"approver", "admin"}) =>
          /\ \A r \in BagToSet(reqs) : r.op # "submit"
          /\ \A id \in DOMAIN expenses : expenses[id].status = "draft"
          /\ notifications = EmptyBag)

\* A submit succeeded and the expense is pending with an approver or admin.
C34_Witness ==
  /\ last.op = "submit" /\ last.code = 200
  /\ last.id \in DOMAIN expenses
  /\ expenses[last.id].status = "pending"
  /\ expenses[last.id].approver_id \in {"apr", "adm"}

\* The trainMLModel calls that are at their request to the trainer.
Training == {c \in BagToSet(ml) : c.fn = "trainMLModel"}

\* The approved and reimbursed expenses, counted.
Samples == Cardinality({id \in DOMAIN expenses : expenses[id].status \in {"approved", "reimbursed"}})

\* C35: with fewer than 50 approved or reimbursed expenses no trainMLModel
\* call reaches its request and no step changes system_settings; with 50 or
\* more a call whose SELECT succeeded goes on to the request; a call that
\* returns after its request has stored, under 'ml_last_training', the number
\* of rows it sent and the model_version and accuracy of the answer; and a
\* call whose request failed stores nothing.
C35_Retrain ==
  /\ [](Samples < 50 => Training = {} /\ system_settings = <<>>)
  /\ [](\A c \in Training : c.samples = Samples)
  /\ [][/\ Samples >= 50 /\ ml = EmptyBag /\ last'.op = "trainMLModel" =>
            last'.err # NULL
        /\ \A c \in Training :
             CopiesIn(c, ml') < CopiesIn(c, ml) =>
               IF last'.err = NULL
               THEN /\ last'.answer.up
                    /\ "ml_last_training" \in DOMAIN system_settings'
                    /\ LET info == system_settings'["ml_last_training"]
                       IN /\ info.training_samples = c.samples
                          /\ info.accuracy = last'.answer.accuracy
                          /\ last'.answer.model_version # NULL =>
                                info.model_version = last'.answer.model_version
               ELSE UNCHANGED system_settings]_vars

\* A training over at least 50 rows returned, and what it stored is the
\* version and the accuracy of the answer.
C35_Witness ==
  /\ last.op = "trainMLModel" /\ last.err = NULL
  /\ Samples >= 50
  /\ "ml_last_training" \in DOMAIN system_settings
  /\ system_settings["ml_last_training"].model_version = "2.0"
  /\ system_settings["ml_last_training"].accuracy = "0.9"
  /\ system_settings["ml_last_training"].training_samples = Samples

\* The values of the key-value pairs whose key contains one of two words.
ValuesUnder(keyValuePairs, one, other) ==
  {keyValuePairs[i].value : i \in {j \in DOMAIN keyValuePairs :
      includes(keyValuePairs[j].key, one) \/ includes(keyValuePairs[j].key, other)}}

PairAmounts(keyValuePairs) ==
  {parseFloat(replaceComma(keepDigitsAndSeparators(value))) :
     value \in ValuesUnder(keyValuePairs, <<"t", "o", "t", "a", "l">>,
                           <<"a", "m", "o", "u", "n", "t">>)} \ {NaN}

PairDates(keyValuePairs) ==
  {isoDate(value) :
     value \in ValuesUnder(keyValuePairs, <<"d", "a", "t", "e">>,
                           <<"t", "i", "m", "e">>)} \ {NULL}

\* C36: when the extraction has a key-value pair whose key contains total or
\* amount and whose value parses as a number, the amount of the parsed receipt
\* is the number of such a pair and no longer the one matched in the text;
\* when it has a pair whose key contains date or time and whose value is a
\* date, the date of the parsed receipt is the date of such a pair.
C36_KeyValuePairsOverride ==
  last.op = "parseReceiptData" =>
    /\ PairAmounts(last.ocrResult.keyValuePairs) # {} =>
         last.parsedData.amount \in PairAmounts(last.ocrResult.keyValuePairs)
    /\ PairDates(last.ocrResult.keyValuePairs) # {} =>
         last.parsedData.date \in PairDates(last.ocrResult.keyValuePairs)

\* The part of C36 that is about the date, and what becomes of the number of
\* a total or amount pair: it is stored as the total of the parsed receipt,
\* and the amount stays the one matched in the text.
C36_DateOverriddenAmountKept ==
  last.op = "parseReceiptData" =>
    /\ PairDates(last.ocrResult.keyValuePairs) # {} =>
         last.parsedData.date \in PairDates(last.ocrResult.keyValuePairs)
    /\ PairAmounts(last.ocrResult.keyValuePairs) # {} =>
         last.parsedData.total \in PairAmounts(last.ocrResult.keyValuePairs)
    /\ last.parsedData.amount = patternFields(last.ocrResult.fullText).amount

\* A receipt is parsed whose text has a date and whose pairs have another.
C36_DateWitness ==
  /\ last.op = "parseReceiptData"
  /\ patternFields(last.ocrResult.fullText).date = "2025-01-20"
  /\ last.parsedData.date = "2025-01-22"

\* This step is one of the categorizer call c.
MlStepOf(c) == CopiesIn(c, ml') < CopiesIn(c, ml)

\* C37: every job and every audit row is of an expense that exists; a DELETE
\* answered with 204 leaves no job of its expense; and a statement of an
\* extraction or categorization run whose expense has been deleted changes no
\* table.
C37_NoOrphans ==
  /\ [](\A i \in DOMAIN ocr_queue : ocr_queue[i].expense_id \in DOMAIN expenses)
  /\ [](\A row \in BagToSet(expense_audit_log) : row.expense_id \in DOMAIN expenses)
  /\ [][/\ last'.op = "delete" /\ last'.code = 204 =>
             /\ last'.id \notin DOMAIN expenses'
             /\ \A i \in DOMAIN ocr_queue' : ocr_queue'[i].expense_id # last'.id
        /\ \A p \in BagToSet(ocr) :
             StepOf(p, p.pc) /\ p.expense_id \notin DOMAIN expenses => UNCHANGED dbvars
        /\ \A c \in BagToSet(ml) :
             MlStepOf(c) /\ c.expense_id \notin DOMAIN expenses => UNCHANGED dbvars]_vars

\* An extraction and a categorization of a deleted expense have come to their
\* end: the extraction returned, the categorizer is at its audit INSERT.
C37_Witness ==
  /\ last.op = "processReceiptOCR" /\ last.err = NULL
  /\ last.id \notin DOMAIN expenses
  /\ \E c \in BagToSet(ml) : c.pc = "audit" /\ c.expense_id \notin DOMAIN expenses

\* C38: an expense that is approved or reimbursed has an approver who is not
\* its owner, whatever the role of the owner.
C38_NoSelfApproval ==
  \A id \in DOMAIN expenses :
    Status(id) \in {"approved", "reimbursed"} =>
      expenses[id].approver_id # expenses[id].user_id

\* What holds of every approved or reimbursed expense: its approver is a user
\* with the approver or admin role.
C38_ApprovedByAnApprover ==
  \A id \in DOMAIN expenses :
    Status(id) \in {"approved", "reimbursed"} =>
      /\ expenses[id].approver_id \in Users
      /\ Role(expenses[id].approver_id) \in {"approver", "admin"}

\* This step takes the processReceiptOCR call p on to statement pc.
MovedTo(p, pc) ==
  CopiesIn([p EXCEPT !.pc = pc], ocr') > CopiesIn([p EXCEPT !.pc = pc], ocr)

\* data is the raw extraction ocrResult together with its parsed fields.
IsMerged(data, ocrResult) ==
  /\ data.fullText = ocrResult.fullText
  /\ data.keyValuePairs = ocrResult.keyValuePairs
  /\ data.confidence = ocrResult.confidence
  /\ data.parsed = parseReceiptData(ocrResult)

\* The job rows of expense id are marked completed: the status, and no other
\* column, the attempts included; every other row is as before.
MarkedCompleted(id) ==
  /\ Len(ocr_queue') = Len(ocr_queue)
  /\ \A i \in DOMAIN ocr_queue :
        IF ocr_queue[i].expense_id = id
        THEN /\ ocr_queue'[i].status = "completed"
             /\ ocr_queue'[i].attempts = ocr_queue[i].attempts
             /\ \A f \in DOMAIN ocr_queue[i] \ {"status"} :
                   ocr_queue'[i][f] = ocr_queue[i][f]
        ELSE ocr_queue'[i] = ocr_queue[i]

\* C39: the statements of an attempt after its extraction do this and no more:
\* the first writes the merged payload (the raw extraction and its parsed
\* fields) and ocr_status completed onto the expense; the second sets the
\* job's status to completed and leaves its attempts alone; the third appends
\* exactly one 'ocr_processed' row that records the confidence of the
\* extraction, and the call returns success.  A statement the database
\* refuses changes nothing and the attempt does not succeed; an attempt
\* succeeds by its third statement only.
C39_SuccessIsRecorded ==
  [][\A p \in BagToSet(ocr) :
       p.expense_id \in DOMAIN expenses =>
         LET id == p.expense_id
             ocrResult == extractTextFromImage(p.receipt_url)
             succeeds == /\ CopiesIn(p, ocr') < CopiesIn(p, ocr)
                         /\ last'.op = "processReceiptOCR" /\ last'.err = NULL
         IN /\ StepOf(p, "expense_completed") =>
                 /\ UNCHANGED <<ocr_queue, expense_audit_log>>
                 /\ IF MovedTo(p, "queue_completed")
                    THEN /\ IsMerged(expenses'[id].ocr_data, ocrResult)
                         /\ expenses'[id].ocr_status = "completed"
                         /\ \A f \in DOMAIN expenses[id] \ {"ocr_data", "ocr_status"} :
                               expenses'[id][f] = expenses[id][f]
                         /\ \A other \in DOMAIN expenses \ {id} :
                               expenses'[other] = expenses[other]
                    ELSE UNCHANGED expenses /\ ~succeeds
            /\ StepOf(p, "queue_completed") =>
                 /\ UNCHANGED <<expenses, expense_audit_log>>
                 /\ IF MovedTo(p, "audit")
                    THEN MarkedCompleted(id)
                    ELSE UNCHANGED ocr_queue /\ ~succeeds
            /\ StepOf(p, "audit") =>
                 /\ UNCHANGED <<expenses, ocr_queue>>
                 /\ IF succeeds
                    THEN expense_audit_log' = expense_audit_log (+)
                           SetToBag({[expense_id |-> id, action |-> "ocr_processed",
                                      old_status |-> NULL, new_status |-> NULL,
                                      metadata |-> ocrResult.confidence]})
                    ELSE UNCHANGED expense_audit_log
            /\ succeeds => p.pc = "audit"]_vars

\* An attempt has succeeded: the expense has the merged payload of its receipt
\* and is completed, its job is completed without an attempt counted, and the
\* one 'ocr_processed' row of the expense records the confidence.
C39_Witness ==
  /\ last.op = "processReceiptOCR" /\ last.err = NULL
  /\ last.id \in DOMAIN expenses
  /\ expenses[last.id].ocr_status = "completed"
  /\ IsMerged(expenses[last.id].ocr_data, extractTextFromImage(expenses[last.id].receipt_url))
  /\ expenses[last.id].ocr_data.parsed.total = [is |-> "number", whole |-> 25, frac |-> <<>>]
  /\ \A i \in JobsOf(ocr_queue, last.id) :
        ocr_queue[i].status = "completed" /\ ocr_queue[i].attempts = 0
  /\ JobsOf(ocr_queue, last.id) # {}
  /\ \E row \in BagToSet(expense_audit_log) :
        /\ row.expense_id = last.id /\ row.action = "ocr_processed"
        /\ row.metadata = "0.85"
        /\ CopiesIn(row, expense_audit_log) = 1

Init ==
  /\ active \in {Users, {"emp"}}
  /\ expenses = <<>>
  /\ created = 0
  /\ expense_audit_log = EmptyBag
  /\ notifications = EmptyBag
  /\ expense_comments = EmptyBag
  /\ ocr_queue = <<>>
  /\ reqs = EmptyBag
  /\ nreq = 0
  /\ last = NoResponse
  /\ ocr = EmptyBag
  /\ sweeps = EmptyBag
  /\ nsweep = 0
  /\ ml = EmptyBag
  /\ system_settings = <<>>

Next == Lifecycle

Spec == Init /\ [][Next]_vars

NextOcr == Receipts \/ (Extraction /\ nsweep' <= MaxOcrSweeps)

\* The OCR pipeline alone: receipts are created, never replaced or removed.
NextRetry ==
  \/ \E body \in OcrBodies, failAt \in FailPoints : Create("emp", body, failAt)
  \/ Extraction

InitOcr == Init /\ active = Users

SpecOcr == InitOcr /\ [][NextOcr]_vars

SpecRetry == InitOcr /\ [][NextRetry]_vars

\* An expense of one employee on its way to approval.
Approval ==
  \/ \E body \in OcrBodies, failAt \in FailPoints : Create("emp", body, failAt)
  \/ (\E id \in ExpenseIds : Submit("emp", id)) /\ nreq' <= MaxPipelineCalls
  \/ \E r \in BagToSet(reqs), failAt \in FailPoints : SubmitTx(r, failAt)
  \/ (\E id \in ExpenseIds : Approve("apr", id)) /\ nreq' <= MaxPipelineCalls
  \/ \E r \in BagToSet(reqs), failAt \in FailPoints : ApproveTx(r, failAt)

\* The steps of the processReceiptOCR calls in flight.
processReceiptOCR ==
  \/ \E p \in BagToSet(ocr), ok \in BOOLEAN : OcrExpenseProcessing(p, ok)
  \/ \E p \in BagToSet(ocr), ok \in BOOLEAN : OcrQueueProcessing(p, ok)
  \/ \E p \in BagToSet(ocr), ok \in BOOLEAN : OcrExtract(p, ok)
  \/ \E p \in BagToSet(ocr), ok \in BOOLEAN : OcrExpenseCompleted(p, ok)
  \/ \E p \in BagToSet(ocr), ok \in BOOLEAN : OcrQueueCompleted(p, ok)
  \/ \E p \in BagToSet(ocr), ok \in BOOLEAN : OcrAudit(p, ok)
  \/ \E p \in BagToSet(ocr), ok \in BOOLEAN : OcrExpenseFailed(p, ok)
  \/ \E p \in BagToSet(ocr), ok \in BOOLEAN : OcrQueueFailed(p, ok)

\* The lifecycle of an expense while its receipt is extracted and retried.
NextStatus ==
  \/ Approval
  \/ (\E id \in ExpenseIds : Reject("apr", id, "text")) /\ nreq' <= MaxStatusCalls
  \/ \E r \in BagToSet(reqs), failAt \in FailPoints : RejectTx(r, failAt)
  \/ (\E id \in ExpenseIds : RequestChanges("apr", id, "text")) /\ nreq' <= MaxStatusCalls
  \/ \E r \in BagToSet(reqs), failAt \in FailPoints : RequestChangesTx(r, failAt)
  \/ (\E id \in ExpenseIds : Reimburse("adm", id)) /\ nreq' <= MaxStatusCalls
  \/ \E r \in BagToSet(reqs), failAt \in FailPoints : ReimburseTx(r, failAt)
  \/ processReceiptOCR
  \/ RetrySelect /\ nsweep' <= MaxBatchSweeps
  \/ \E sw \in BagToSet(sweeps) : RetryNext(sw)

SpecStatus == InitOcr /\ [][NextStatus]_vars

\* The approval of an expense while it is extracted and categorized.
NextPipelines == Approval \/ Categorizer \/ processReceiptOCR

SpecPipelines == InitOcr /\ [][NextPipelines]_vars

\* A queue after many creations: expense i was created with a receipt and its
\* job is retryable (failed once), or is one of: failed with its attempts used
\* up, failed and older than the window, completed.
JobKinds == {"retryable", "exhausted", "old", "completed"}

JobOfKind(id, kind) ==
  [expense_id |-> id, receipt_url |-> Uploaded(0),
   status |-> IF kind = "completed" THEN "completed" ELSE "failed",
   attempts |-> CASE kind = "completed" -> 0
                  [] kind = "exhausted" -> DefaultMaxAttempts
                  [] OTHER -> 1,
   max_attempts |-> DefaultMaxAttempts,
   error_message |-> IF kind = "completed" THEN NULL ELSE "ExtractionFailed",
   recent |-> kind # "old"]

ExpenseOfKind(kind) ==
  [NewExpense("emp", [category |-> "meals", amount |-> 50, file |-> TRUE], Uploaded(0))
     EXCEPT !.ocr_status = IF kind = "completed" THEN "completed" ELSE "failed",
            !.ocr_data = IF kind = "completed" THEN OcrData(Uploaded(0)) ELSE NoOcrData]

InitSweep ==
  /\ active = Users
  /\ \E n \in 0..MaxQueue, odd \in 0..MaxQueue, kind \in JobKinds \ {"retryable"} :
       /\ odd <= n
       /\ odd = 0 => kind = "exhausted"
       /\ LET kinds == [i \in 1..n |-> IF i = odd THEN kind ELSE "retryable"]
          IN /\ expenses = [i \in 1..n |-> ExpenseOfKind(kinds[i])]
             /\ ocr_queue = [i \in 1..n |-> JobOfKind(i, kinds[i])]
             /\ expense_audit_log =
                  SetToBag({AuditRow(i, "created", NULL, "draft") : i \in 1..n}
                           \cup {OcrProcessedRow(i, SimulatedOcr.confidence) :
                                   i \in {j \in 1..n : kinds[j] = "completed"}})
             /\ created = n
  /\ notifications = EmptyBag
  /\ expense_comments = EmptyBag
  /\ reqs = EmptyBag
  /\ nreq = 0
  /\ last = NoResponse
  /\ ocr = EmptyBag
  /\ sweeps = EmptyBag
  /\ nsweep = 0
  /\ ml = EmptyBag
  /\ system_settings = <<>>

\* One sweep over such a queue while the provider is down: every query
\* succeeds and every extraction fails.
NextSweep ==
  \/ nsweep < MaxBatchSweeps /\ RetrySelect
  \/ \E sw \in BagToSet(sweeps) : RetryNext(sw)
  \/ \E p \in BagToSet(ocr) : OcrExpenseProcessing(p, TRUE)
  \/ \E p \in BagToSet(ocr) : OcrQueueProcessing(p, TRUE)
  \/ \E p \in BagToSet(ocr) : OcrExtract(p, FALSE)
  \/ \E p \in BagToSet(ocr) : OcrExpenseFailed(p, TRUE)
  \/ \E p \in BagToSet(ocr) : OcrQueueFailed(p, TRUE)

SpecSweep == InitSweep /\ [][NextSweep]_vars

SpecClassify == InitOcr /\ [][NextClassify]_vars

\* An expense without a receipt.
FeedbackBodies == {body \in OcrBodies : ~body.file}

\* The categorization of an expense, and feedbackLearning called with any
\* category at any moment.
NextFeedback ==
  \/ \E body \in FeedbackBodies, failAt \in FailPoints : Create("emp", body, failAt)
  \/ Categorizer
  \/ \E id \in ExpenseIds, category \in Categories : FeedbackLearning(id, category)

SpecFeedback == InitOcr /\ [][NextFeedback]_vars

\* An expense without a receipt on its way to a decision while it is categorized.
NextDecision ==
  \/ \E body \in FeedbackBodies, failAt \in FailPoints : Create("emp", body, failAt)
  \/ (\E id \in ExpenseIds : Submit("emp", id)) /\ nreq' <= MaxPipelineCalls
  \/ \E r \in BagToSet(reqs), failAt \in FailPoints : SubmitTx(r, failAt)
  \/ (\E id \in ExpenseIds : Approve("apr", id)) /\ nreq' <= MaxPipelineCalls
  \/ \E r \in BagToSet(reqs), failAt \in FailPoints : ApproveTx(r, failAt)
  \/ (\E id \in ExpenseIds : Reject("apr", id, "text")) /\ nreq' <= MaxPipelineCalls
  \/ \E r \in BagToSet(reqs), failAt \in FailPoints : RejectTx(r, failAt)
  \/ (\E id \in ExpenseIds : RequestChanges("apr", id, "text")) /\ nreq' <= MaxPipelineCalls
  \/ \E r \in BagToSet(reqs), failAt \in FailPoints : RequestChangesTx(r, failAt)
  \/ Categorizer

SpecDecision == InitOcr /\ [][NextDecision]_vars

\* The approved and reimbursed expenses after many approvals: count of them,
\* and unapproved pending ones besides.
TrainSpread == 2
MaxUnapproved == 2

ExpenseOfStatus(status) ==
  [NewExpense("emp", [category |-> "meals", amount |-> 50, file |-> FALSE], 0)
     EXCEPT !.status = status]

InitTrain ==
  /\ active = Users
  /\ \E count \in (TrainingMinimum - TrainSpread)..(TrainingMinimum + TrainSpread),
        unapproved \in 0..MaxUnapproved :
       /\ expenses = [i \in 1..(count + unapproved) |->
                        ExpenseOfStatus(IF i > count THEN "pending"
                                        ELSE IF i % 2 = 0 THEN "approved"
                                        ELSE "reimbursed")]
       /\ created = count + unapproved
  /\ expense_audit_log = EmptyBag
  /\ notifications = EmptyBag
  /\ expense_comments = EmptyBag
  /\ ocr_queue = <<>>
  /\ reqs = EmptyBag
  /\ nreq = 0
  /\ last = NoResponse
  /\ ocr = EmptyBag
  /\ sweeps = EmptyBag
  /\ nsweep = 0
  /\ ml = EmptyBag
  /\ system_settings = <<>>

\* The periodic training, one call at a time.
NextTrain ==
  \/ ml = EmptyBag /\ \E ok \in BOOLEAN : TrainMLModel(ok)
  \/ \E c \in BagToSet(ml), answer \in TrainerAnswers, ok \in BOOLEAN : TrainPost(c, answer, ok)

SpecTrain == InitTrain /\ [][NextTrain]_vars

\* Receipts come back from the extraction and are parsed.
InitParse ==
  /\ active = Users
  /\ expenses = <<>>
  /\ created = 0
  /\ expense_audit_log = EmptyBag
  /\ notifications = EmptyBag
  /\ expense_comments = EmptyBag
  /\ ocr_queue = <<>>
  /\ reqs = EmptyBag
  /\ nreq = 0
  /\ last \in {Extracted(ocrResult) : ocrResult \in OcrResults}
  /\ ocr = EmptyBag
  /\ sweeps = EmptyBag
  /\ nsweep = 0
  /\ ml = EmptyBag
  /\ system_settings = <<>>

NextParse == ParseReceiptData

SpecParse == InitParse /\ [][NextParse]_vars

\* A draft with a receipt is deleted while it is extracted and categorized.
NextDelete ==
  \/ \E body \in OcrBodies, failAt \in FailPoints : Create("emp", body, failAt)
  \/ (\E id \in ExpenseIds : Delete("emp", id)) /\ nreq' <= MaxPipelineCalls
  \/ \E r \in BagToSet(reqs), failAt \in FailPoints : DeleteTx(r, failAt)
  \/ processReceiptOCR
  \/ \E c \in BagToSet(ml), remote \in RemoteAnswers : MlClassify(c, remote)
  \/ \E c \in BagToSet(ml), ok \in BOOLEAN : MlUpdate(c, ok)
  \/ \E c \in BagToSet(ml), ok \in BOOLEAN : MlAudit(c, ok)
  \/ \E c \in BagToSet(ml), ok \in BOOLEAN : MlFailed(c, ok)

SpecDelete == InitOcr /\ [][NextDelete]_vars

====
